---- MODULE Spec2Model ----
(***************************************************************************)
(* The hub client of the Zigbee scripts: the HAWS session/correlator       *)
(* (connect, three-message handshake, call, close), the snapshot fetch    *)
(* built on it, and the event listener of test_zigbee.py.                 *)
(*                                                                         *)
(* One run is one script invocation (flow).  The main coroutine advances  *)
(* from await point to await point; the hub is the environment and picks  *)
(* every inbound message.  Inbound messages are JSON objects; a key that  *)
(* is missing from the object is "absent" (NoId for the numeric id).      *)
(***************************************************************************)
EXTENDS Integers, Sequences, FiniteSets

VARIABLES
    flow,       \* the script being run
    pc,         \* position of the main coroutine
    conns,      \* every connection opened so far, in order; the last is self.ws / ws
    _id,        \* HAWS._id of the current session
    k,          \* number of calls of the current session body that have returned
    results,    \* the values those calls returned, in order
    snapshot,   \* what collect_data / fetch_all handed to its caller
    exc,        \* the exception in flight (or that ended the run)
    lastIn,     \* the inbound message read by the latest recv of call() or of the loop
    discarded,  \* inbound messages dropped so far by call()
    msg_id,     \* listen_all's msg_id
    observed,   \* events handed to the event-handling block of listen_all
    tapReads,   \* messages read so far by the listen_all loop
    tpc,        \* two coroutines sharing one HAWS: position of each
    tsent,      \*   the id each one put in its request
    tgot,       \*   the message each one's call() ended on
    csv_rows,   \* update_zigbee_devices: the rows read from the CSV
    hub,        \*   the hub's device registry and topology
    fetched,    \*   what load_device_maps read: devreg, zha_devices
    changes,    \*   plan_changes: changes
    stats,      \*   plan_changes: the skip counters
    answer,     \*   main: what the user typed at the prompt
    printed,    \*   apply_changes: the changes reported as applied
    returned,   \*   apply_changes: the value handed back to main
    prev,       \*   the outcome of the invocation before this one
    zha_devices, \* diagnose_zha_issues: the four collections handed to
    devreg,      \*   build_indexes, in the order they are handed over
    entreg,
    states,
    jpc,        \*   the position between build_indexes and diagnose
    indexes,    \*   what build_indexes returned
    views,      \*   diagnose: what each zha device resolved to
    baseline,   \*   views of the first join of these collections
    report,     \*   diagnose: the per-device issues and the five lists
    enriched    \* list_zigbee_devices: what fetch_all returns

upd == <<csv_rows, hub, fetched, changes, stats, answer, printed, returned, prev>>

join == <<zha_devices, devreg, entreg, states, jpc, indexes, views, baseline>>

diag == <<report, enriched>>

vars == <<flow, pc, conns, _id, k, results, snapshot, exc, lastIn, discarded,
          msg_id, observed, tapReads, tpc, tsent, tgot, upd, join, diag>>

-----------------------------------------------------------------------------
(* Bounds *)

\* inbound messages one run lets call() drop
MaxNoise == 2
\* inbound messages one run lets the listen_all loop read
MaxTapReads == 3

\* rows in the CSV
MaxRows == 2

-----------------------------------------------------------------------------
(* Messages *)

\* data.get("id") of a message without an id
NoId == -1

Msg(type, id, success, result, event_type, marker) ==
    [type |-> type, id |-> id, success |-> success, result |-> result,
     event_type |-> event_type, marker |-> marker]

NoMsg == Msg("none", NoId, "absent", "absent", "absent", FALSE)

Out(type, id, arg) == [type |-> type, id |-> id, arg |-> arg]

\* what the hub sends first
HelloMsgs == { Msg("auth_required", NoId, "absent", "absent", "absent", FALSE) }

\* what the hub answers to the credential; marker: the raw text holds "auth_ok"
AuthReplies ==
    { Msg("auth_ok", NoId, "absent", "absent", "absent", TRUE),
      Msg("auth_invalid", NoId, "absent", "absent", "absent", FALSE),
      Msg("auth_invalid", NoId, "absent", "absent", "absent", TRUE) }

Payloads == {"p1", "p2"}

\* what the hub may send while request `cur` is pending
CallMsgs(cur) ==
    { Msg("result", cur, "true", p, "absent", FALSE) : p \in Payloads }
    \cup { Msg("result", cur, s, "absent", "absent", FALSE) : s \in {"true", "false", "absent"} }
    \cup { Msg("result", cur, "false", "p1", "absent", FALSE) }
    \cup { Msg("result", i, "true", "p1", "absent", FALSE) : i \in {cur - 1, cur + 1, NoId} }
    \cup { Msg("event", i, "absent", "absent", "zha_event", FALSE) : i \in {cur, NoId} }
    \cup { Msg("pong", cur, "absent", "absent", "absent", FALSE) }

-----------------------------------------------------------------------------
(* The scripts *)

Flows == {"diagnose", "list", "monitor"}

\* HAWS.__init__: self._id
InitialId(f) == IF f = "list" THEN 1 ELSE 0

\* variant: the two registry reads swapped
OpsReordered(f) ==
    IF f = "monitor"
    THEN << "config/device_registry/list", "config/entity_registry/list", "zha/devices" >>
    ELSE << "zha/devices", "config/entity_registry/list",
            "config/device_registry/list", "get_states" >>

\* the calls of the session body, in program order
Ops(f) ==
    IF f = "monitor"
    THEN << "config/device_registry/list", "config/entity_registry/list", "zha/devices" >>
    ELSE << "zha/devices", "config/device_registry/list",
            "config/entity_registry/list", "get_states" >>

NoExc == [kind |-> "none", operation |-> "", payload |-> NoMsg]

Raise(kind, operation, payload) ==
    [kind |-> kind, operation |-> operation, payload |-> payload]

NewConn(kind) ==
    [kind |-> kind, state |-> "open", sent |-> << >>, hello |-> NoMsg,
     reply |-> NoMsg, entered |-> FALSE, nin |-> 0]

cur == Len(conns)

Send(m) == conns' = [conns EXCEPT ![cur].sent = Append(@, m)]

-----------------------------------------------------------------------------
(* HAWS *)

\* variant: the reply is not tested
AuthOkAlways(m) == TRUE

\* '"auth_ok"' in auth_ok
AuthOk(m) == m.marker

\* variant: the counter is not incremented
NextIdStuck(n) == n

\* self._id += 1
NextId(n) == n + 1

\* variant: the type is not tested
MatchesIdOnly(m, n) == m.id = n

\* data.get("id") == self._id and data.get("type") == "result"
Matches(m, n) == m.id = n /\ m.type = "result"

\* variant: data.get("success", True)
IsSuccessDefaultTrue(m) == m.success # "false"

\* data.get("success", False)
IsSuccess(m) == m.success = "true"

\* variant: the failed call is caught and issued again
UnwindRetry == "body"

\* a raise inside call(): it leaves the async with block through __aexit__
Unwind == "exit"

\* a Python None where a string may stand
None == "<None>"

NoStats ==
    [skipped_missing |-> 0, skipped_empty |-> 0, skipped_same |-> 0,
     skipped_coordinator |-> 0, skipped_no_ieee |-> 0]

NoPrev == [ran |-> FALSE, changes |-> << >>, applied |-> 0, done |-> FALSE]

\* the update script is not running
UpdateAtRest ==
    /\ csv_rows = << >>
    /\ hub = [reg |-> << >>, zha |-> << >>]
    /\ fetched = [devreg |-> << >>, zha |-> << >>]
    /\ changes = << >>
    /\ stats = NoStats
    /\ answer = None
    /\ printed = << >>
    /\ returned = None
    /\ prev = NoPrev

\* build_indexes and diagnose are not running
JoinAtRest ==
    /\ zha_devices = << >>
    /\ devreg = << >>
    /\ entreg = << >>
    /\ states = << >>
    /\ jpc = "off"
    /\ indexes = << >>
    /\ views = << >>
    /\ baseline = << >>

\* diagnose and the merge of fetch_all have not run
DiagAtRest ==
    /\ report = << >>
    /\ enriched = << >>

Init ==
    /\ UpdateAtRest
    /\ JoinAtRest
    /\ DiagAtRest
    /\ flow \in Flows
    /\ pc = "start"
    /\ conns = << >>
    /\ _id = InitialId(flow)
    /\ k = 0
    /\ results = << >>
    /\ snapshot = << >>
    /\ exc = NoExc
    /\ lastIn = NoMsg
    /\ discarded = 0
    /\ msg_id = 0
    /\ observed = << >>
    /\ tapReads = 0
    /\ tpc = << >>
    /\ tsent = << >>
    /\ tgot = << >>

Idle == UNCHANGED <<tpc, tsent, tgot, upd, join, diag>>

\* __aenter__: self.ws = await websockets.connect(...)
Connect ==
    /\ pc = "start"
    /\ conns' = Append(conns, NewConn("HAWS"))
    /\ pc' = "hello"
    /\ UNCHANGED <<flow, _id, k, results, snapshot, exc, lastIn, discarded,
                   msg_id, observed, tapReads>>
    /\ Idle

\* __aenter__: websockets.connect raises (the hub cannot be reached)
ConnectFails ==
    /\ pc = "start"
    /\ exc' = Raise("ConnectionError", "connect", NoMsg)
    /\ pc' = "raised"
    /\ UNCHANGED <<flow, conns, _id, k, results, snapshot, lastIn, discarded,
                   msg_id, observed, tapReads>>
    /\ Idle

\* __aenter__: await self.ws.recv()  (the message is not looked at)
RecvHello ==
    /\ pc = "hello"
    /\ \E m \in HelloMsgs :
         conns' = [conns EXCEPT ![cur].hello = m, ![cur].nin = @ + 1]
    /\ pc' = "auth"
    /\ UNCHANGED <<flow, _id, k, results, snapshot, exc, lastIn, discarded,
                   msg_id, observed, tapReads>>
    /\ Idle

\* __aenter__: await self.ws.send({"type": "auth", ...})
SendAuth ==
    /\ pc = "auth"
    /\ Send(Out("auth", NoId, "access_token"))
    /\ pc' = "reply"
    /\ UNCHANGED <<flow, _id, k, results, snapshot, exc, lastIn, discarded,
                   msg_id, observed, tapReads>>
    /\ Idle

\* __aenter__: auth_ok = await self.ws.recv(); raise unless it holds the marker.
\* The raise leaves __aenter__, so the async with never runs __aexit__.
RecvAuthReply ==
    /\ pc = "reply"
    /\ \E m \in AuthReplies :
         IF AuthOk(m)
         THEN /\ conns' = [conns EXCEPT ![cur].reply = m, ![cur].nin = @ + 1,
                                        ![cur].entered = TRUE]
              /\ pc' = "body"
              /\ exc' = exc
         ELSE /\ conns' = [conns EXCEPT ![cur].reply = m, ![cur].nin = @ + 1]
              /\ pc' = "raised"
              /\ exc' = Raise("AuthFailed", "auth", m)
    /\ UNCHANGED <<flow, _id, k, results, snapshot, lastIn, discarded,
                   msg_id, observed, tapReads>>
    /\ Idle

\* call: self._id += 1; await self.ws.send({"id": self._id, "type": typ})
CallSend ==
    /\ pc = "body"
    /\ k < Len(Ops(flow))
    /\ _id' = NextId(_id)
    /\ Send(Out(Ops(flow)[k + 1], _id', ""))
    /\ pc' = "wait"
    /\ UNCHANGED <<flow, k, results, snapshot, exc, lastIn, discarded,
                   msg_id, observed, tapReads>>
    /\ Idle

\* call: one turn of the while True loop
CallRecv ==
    /\ pc = "wait"
    /\ \E m \in CallMsgs(_id) :
         /\ lastIn' = m
         /\ conns' = [conns EXCEPT ![cur].nin = @ + 1]
         /\ IF Matches(m, _id)
            THEN IF ~IsSuccess(m)
                 THEN \* raise RuntimeError(f"{typ} failed: {data}")
                      /\ exc' = Raise("OperationFailed", Ops(flow)[k + 1], m)
                      /\ pc' = Unwind
                      /\ UNCHANGED <<k, results, discarded>>
                 ELSE IF m.result = "absent"
                 THEN \* data["result"] of a message without the key
                      /\ exc' = Raise("KeyError", "result", m)
                      /\ pc' = Unwind
                      /\ UNCHANGED <<k, results, discarded>>
                 ELSE \* return data["result"]
                      /\ results' = Append(results, m.result)
                      /\ k' = k + 1
                      /\ pc' = "body"
                      /\ UNCHANGED <<exc, discarded>>
            ELSE /\ discarded < MaxNoise
                 /\ discarded' = discarded + 1
                 /\ UNCHANGED <<pc, k, results, exc>>
    /\ UNCHANGED <<flow, _id, snapshot, msg_id, observed, tapReads>>
    /\ Idle

\* call: await self.ws.recv() raises (the peer dropped the connection, or the
\* task was cancelled) while a request is pending
BodyException ==
    /\ pc = "wait"
    /\ exc' = Raise("ConnectionClosed", Ops(flow)[k + 1], NoMsg)
    /\ pc' = "exit"
    /\ UNCHANGED <<flow, conns, _id, k, results, snapshot, lastIn, discarded,
                   msg_id, observed, tapReads>>
    /\ Idle

\* collect_data: return zha_devices, devreg, entreg, states
\* (fetch_all, dump_all_devices: the names bound in the async with block)
FetchReturn ==
    /\ pc = "body"
    /\ k = Len(Ops(flow))
    /\ snapshot' = results
    /\ pc' = "exit"
    /\ UNCHANGED <<flow, conns, _id, k, results, exc, lastIn, discarded,
                   msg_id, observed, tapReads>>
    /\ Idle

\* variant: the connection is never closed
CloseStateNever(e) == "open"

\* variant: the connection is closed only when no exception is in flight
CloseStateOnSuccessOnly(e) == IF e.kind = "none" THEN "closed" ELSE "open"

\* __aexit__: if self.ws: await self.ws.close()
CloseState(e) == "closed"

\* where the run goes once the async with block is left
AfterSession(f, e) ==
    IF e.kind # "none" THEN "raised"
    ELSE IF f = "monitor" THEN "tap_start"
    ELSE "done"

AExit ==
    /\ pc = "exit"
    /\ conns' = [conns EXCEPT ![cur].state = CloseState(exc)]
    /\ pc' = AfterSession(flow, exc)
    /\ UNCHANGED <<flow, _id, k, results, snapshot, exc, lastIn, discarded,
                   msg_id, observed, tapReads>>
    /\ Idle

-----------------------------------------------------------------------------
(* listen_all *)

\* the two subscriptions, in program order
SubTypes == << "zha_event", "state_changed" >>

\* what the hub may send once the subscriptions are out: their acknowledgments,
\* events of the subscribed types (they carry the subscription's id), others
TapMsgs ==
    { Msg("result", i, s, "absent", "absent", FALSE) : i \in {1, 2}, s \in {"true", "false"} }
    \cup { Msg("event", 1, "absent", "absent", "zha_event", FALSE),
           Msg("event", 2, "absent", "absent", "state_changed", FALSE),
           Msg("pong", NoId, "absent", "absent", "absent", FALSE) }

\* auth_reply.get("type") != "auth_ok"
TapAuthOk(m) == m.type = "auth_ok"

\* variant: everything but a result is taken for an event
IsEventLoose(m) == m.type # "result"

\* data.get("type") != "event": continue
IsEvent(m) == m.type = "event"

\* variant: the loop ends on the acknowledgment of a subscription
AfterTapReadStopOnAck(m) == IF m.type = "result" THEN "tap_exit" ELSE "tap_loop"

\* while True: neither the continue nor the end of the loop body leaves the loop
AfterTapRead(m) == "tap_loop"

\* async with websockets.connect(...) as ws
TapConnect ==
    /\ pc = "tap_start"
    /\ conns' = Append(conns, NewConn("tap"))
    /\ pc' = "tap_hello"
    /\ UNCHANGED <<flow, _id, k, results, snapshot, exc, lastIn, discarded,
                   msg_id, observed, tapReads>>
    /\ Idle

\* websockets.connect raises (the hub cannot be reached)
TapConnectFails ==
    /\ pc = "tap_start"
    /\ exc' = Raise("ConnectionError", "connect", NoMsg)
    /\ pc' = "raised"
    /\ UNCHANGED <<flow, conns, _id, k, results, snapshot, lastIn, discarded,
                   msg_id, observed, tapReads>>
    /\ Idle

\* hello = await ws.recv()
TapRecvHello ==
    /\ pc = "tap_hello"
    /\ \E m \in HelloMsgs :
         conns' = [conns EXCEPT ![cur].hello = m, ![cur].nin = @ + 1]
    /\ pc' = "tap_auth"
    /\ UNCHANGED <<flow, _id, k, results, snapshot, exc, lastIn, discarded,
                   msg_id, observed, tapReads>>
    /\ Idle

\* await ws.send({"type": "auth", ...})
TapSendAuth ==
    /\ pc = "tap_auth"
    /\ Send(Out("auth", NoId, "access_token"))
    /\ pc' = "tap_reply"
    /\ UNCHANGED <<flow, _id, k, results, snapshot, exc, lastIn, discarded,
                   msg_id, observed, tapReads>>
    /\ Idle

\* auth_reply = json.loads(await ws.recv()); raise unless its type is auth_ok;
\* msg_id = 0
TapRecvAuthReply ==
    /\ pc = "tap_reply"
    /\ \E m \in AuthReplies :
         IF TapAuthOk(m)
         THEN /\ conns' = [conns EXCEPT ![cur].reply = m, ![cur].nin = @ + 1,
                                        ![cur].entered = TRUE]
              /\ pc' = "tap_sub"
              /\ exc' = exc
         ELSE /\ conns' = [conns EXCEPT ![cur].reply = m, ![cur].nin = @ + 1]
              /\ pc' = "tap_exit"
              /\ exc' = Raise("AuthFailed", "auth", m)
    /\ msg_id' = 0
    /\ UNCHANGED <<flow, _id, k, results, snapshot, lastIn, discarded,
                   observed, tapReads>>
    /\ Idle

\* await ws.send({"id": next_id(), "type": "subscribe_events", "event_type": ...})
TapSubscribe ==
    /\ pc = "tap_sub"
    /\ msg_id' = msg_id + 1
    /\ Send(Out("subscribe_events", msg_id', SubTypes[msg_id']))
    /\ pc' = IF msg_id' = Len(SubTypes) THEN "tap_loop" ELSE "tap_sub"
    /\ UNCHANGED <<flow, _id, k, results, snapshot, exc, lastIn, discarded,
                   observed, tapReads>>
    /\ Idle

\* one turn of the while True loop
TapRecv ==
    /\ pc = "tap_loop"
    /\ tapReads < MaxTapReads
    /\ \E m \in TapMsgs :
         /\ lastIn' = m
         /\ conns' = [conns EXCEPT ![cur].nin = @ + 1]
         /\ observed' = IF IsEvent(m) THEN Append(observed, m.event_type)
                        ELSE observed
         /\ pc' = AfterTapRead(m)
    /\ tapReads' = tapReads + 1
    /\ UNCHANGED <<flow, _id, k, results, snapshot, exc, discarded, msg_id>>
    /\ Idle

\* Ctrl+C while the loop awaits ws.recv()
TapInterrupt ==
    /\ pc = "tap_loop"
    /\ exc' = Raise("KeyboardInterrupt", "", NoMsg)
    /\ pc' = "tap_exit"
    /\ UNCHANGED <<flow, conns, _id, k, results, snapshot, lastIn, discarded,
                   msg_id, observed, tapReads>>
    /\ Idle

\* leaving async with websockets.connect(...): the connection is closed;
\* main catches KeyboardInterrupt and nothing else
TapExit ==
    /\ pc = "tap_exit"
    /\ conns' = [conns EXCEPT ![cur].state = "closed"]
    /\ pc' = IF exc.kind = "KeyboardInterrupt" THEN "stopped" ELSE "raised"
    /\ UNCHANGED <<flow, _id, k, results, snapshot, exc, lastIn, discarded,
                   msg_id, observed, tapReads>>
    /\ Idle

-----------------------------------------------------------------------------

Next ==
    \/ Connect
    \/ ConnectFails
    \/ RecvHello
    \/ SendAuth
    \/ RecvAuthReply
    \/ CallSend
    \/ CallRecv
    \/ BodyException
    \/ FetchReturn
    \/ AExit
    \/ TapConnect
    \/ TapConnectFails
    \/ TapRecvHello
    \/ TapSendAuth
    \/ TapRecvAuthReply
    \/ TapSubscribe
    \/ TapRecv
    \/ TapInterrupt
    \/ TapExit

Spec == Init /\ [][Next]_vars

-----------------------------------------------------------------------------
(* Two coroutines calling call() on one HAWS whose handshake is done.      *)
(* call() holds no lock: every await in it is a point where the other      *)
(* coroutine may run.                                                      *)

Tasks == {1, 2}

\* the operation each coroutine asks for
TaskOp(t) == IF t = 1 THEN "zha/devices" ELSE "get_states"

\* the connection as __aenter__ leaves it
EnteredConn ==
    [NewConn("HAWS") EXCEPT
        !.hello = Msg("auth_required", NoId, "absent", "absent", "absent", FALSE),
        !.sent = << Out("auth", NoId, "access_token") >>,
        !.reply = Msg("auth_ok", NoId, "absent", "absent", "absent", TRUE),
        !.entered = TRUE,
        !.nin = 2]

InitConc ==
    /\ UpdateAtRest
    /\ JoinAtRest
    /\ DiagAtRest
    /\ flow \in {"diagnose", "list"}
    /\ pc = "gather"
    /\ conns = << EnteredConn >>
    /\ _id = InitialId(flow)
    /\ k = 0
    /\ results = << >>
    /\ snapshot = << >>
    /\ exc = NoExc
    /\ lastIn = NoMsg
    /\ discarded = 0
    /\ msg_id = 0
    /\ observed = << >>
    /\ tapReads = 0
    /\ tpc = [t \in Tasks |-> "idle"]
    /\ tsent = [t \in Tasks |-> NoId]
    /\ tgot = [t \in Tasks |-> NoMsg]

Rest == UNCHANGED <<flow, pc, k, results, snapshot, exc, msg_id, observed, tapReads, upd, join, diag>>

\* call: self._id += 1; msg = {"id": self._id, "type": typ}; await self.ws.send(msg)
TCallSend(t) ==
    /\ tpc[t] = "idle"
    /\ _id' = NextId(_id)
    /\ Send(Out(TaskOp(t), _id', ""))
    /\ tsent' = [tsent EXCEPT ![t] = _id']
    /\ tpc' = [tpc EXCEPT ![t] = "sent"]
    /\ UNCHANGED <<lastIn, discarded, tgot>>
    /\ Rest

\* call: await self.ws.recv() is entered.  With another coroutine already
\* waiting in recv() the connection either queues this one or raises.
TRecvEnter(t) ==
    /\ tpc[t] = "sent"
    /\ \/ tpc' = [tpc EXCEPT ![t] = "recv"]
       \/ /\ \E u \in Tasks : u # t /\ tpc[u] = "recv"
          /\ tpc' = [tpc EXCEPT ![t] = "failed_recv"]
    /\ UNCHANGED <<conns, _id, lastIn, discarded, tsent, tgot>>
    /\ Rest

\* call: one turn of the while True loop, comparing with self._id as it is now
TCallRecv(t) ==
    /\ tpc[t] = "recv"
    /\ \E m \in CallMsgs(_id) :
         /\ lastIn' = m
         /\ conns' = [conns EXCEPT ![cur].nin = @ + 1]
         /\ IF Matches(m, _id)
            THEN /\ tgot' = [tgot EXCEPT ![t] = m]
                 /\ tpc' = [tpc EXCEPT ![t] =
                              IF ~IsSuccess(m) THEN "failed_op"
                              ELSE IF m.result = "absent" THEN "failed_key"
                              ELSE "returned"]
                 /\ UNCHANGED discarded
            ELSE /\ discarded < MaxNoise
                 /\ discarded' = discarded + 1
                 /\ UNCHANGED <<tpc, tgot>>
    /\ UNCHANGED <<_id, tsent>>
    /\ Rest

NextConc ==
    \/ \E t \in Tasks : TCallSend(t)
    \/ \E t \in Tasks : TRecvEnter(t)
    \/ \E t \in Tasks : TCallRecv(t)

SpecConc == InitConc /\ [][NextConc]_vars

-----------------------------------------------------------------------------
(* update_zigbee_devices: strings and dicts *)

\* x or d, for x a string or None
Or(x, d) == IF x = None \/ x = "" THEN d ELSE x

\* str.lower on the strings of the model
Lower(s) ==
    CASE s = "AA" -> "aa"
      [] s = "aA" -> "aa"
      [] s = " AA" -> " aa"
      [] s = "BB" -> "bb"
      [] s = "ZHA" -> "zha"
      [] s = "Y" -> "y"
      [] s = "Yes " -> "yes "
      [] s = "Yes" -> "yes"
      [] s = "IKEA" -> "ikea"
      [] s = "Aqara" -> "aqara"
      [] s = "Unknown" -> "unknown"
      [] s = "TRADFRI" -> "tradfri"
      [] s = "RTCGQ11LM" -> "rtcgq11lm"
      [] s = "UNK-1" -> "unk-1"
      [] s = "Battery" -> "battery"
      [] s = "sensor.Plug_BATTERY" -> "sensor.plug_battery"
      [] OTHER -> s

\* str.strip on the strings of the model
Strip(s) ==
    CASE s = " AA" -> "AA"
      [] s = " aa" -> "aa"
      [] s = " L" -> "L"
      [] s = "Yes " -> "Yes"
      [] s = "yes " -> "yes"
      [] s = " " -> ""
      [] OTHER -> s

\* a dict is a function on its keys; d[key] = v overwrites
EmptyDict == [x \in {} |-> None]

Put(d, key, v) == [x \in DOMAIN d \cup {key} |-> IF x = key THEN v ELSE d[x]]

Get(d, key, default) == IF key \in DOMAIN d THEN d[key] ELSE default

(* load_device_maps *)

IsZhaIdentAnyTag(ident) == Len(ident) = 2

IsZhaIdent(ident) == Len(ident) = 2 /\ Lower(ident[1]) = "zha"

\* the insertion with the address as the record spells it
RECURSIVE AddIdentifiersAsSpelled(_, _, _)
AddIdentifiersAsSpelled(m, identifiers, id) ==
    IF identifiers = << >> THEN m
    ELSE AddIdentifiersAsSpelled(IF IsZhaIdent(Head(identifiers))
                                 THEN Put(m, Head(identifiers)[2], id)
                                 ELSE m,
                                 Tail(identifiers), id)

\* the insertion that keeps the record already standing at the address
RECURSIVE AddIdentifiersKeepFirst(_, _, _)
AddIdentifiersKeepFirst(m, identifiers, id) ==
    IF identifiers = << >> THEN m
    ELSE AddIdentifiersKeepFirst(
             IF IsZhaIdent(Head(identifiers)) /\ Lower(Head(identifiers)[2]) \notin DOMAIN m
             THEN Put(m, Lower(Head(identifiers)[2]), id)
             ELSE m,
             Tail(identifiers), id)

RECURSIVE AddIdentifiers(_, _, _)
AddIdentifiers(m, identifiers, id) ==
    IF identifiers = << >> THEN m
    ELSE AddIdentifiers(IF IsZhaIdent(Head(identifiers))
                        THEN Put(m, Lower(Head(identifiers)[2]), id)
                        ELSE m,
                        Tail(identifiers), id)

RECURSIVE IeeeToDevId(_, _)
IeeeToDevId(m, records) ==
    IF records = << >> THEN m
    ELSE IeeeToDevId(AddIdentifiers(m, Head(records).identifiers, Head(records).id),
                     Tail(records))

RECURSIVE DevIdToNames(_, _)
DevIdToNames(m, records) ==
    IF records = << >> THEN m
    ELSE DevIdToNames(Put(m, Head(records).id,
                          << Head(records).name_by_user, Head(records).name >>),
                      Tail(records))

\* nwk is an int or a string: isint tells which, str is str(nwk)
IsCoordinatorNwk(nwk) == (nwk.isint /\ nwk.str = "0") \/ nwk.str \in {"0", "0000"}

RECURSIVE CoordinatorIeeeRaw(_)
CoordinatorIeeeRaw(zds) ==
    IF zds = << >> THEN None
    ELSE IF IsCoordinatorNwk(Head(zds).nwk)
         THEN Or(Head(zds).ieee, "")
         ELSE CoordinatorIeeeRaw(Tail(zds))

RECURSIVE CoordinatorIeee(_)
CoordinatorIeee(zds) ==
    IF zds = << >> THEN None
    ELSE IF IsCoordinatorNwk(Head(zds).nwk)
         THEN Lower(Or(Head(zds).ieee, ""))
         ELSE CoordinatorIeee(Tail(zds))

load_device_maps(f) ==
    [ieee_to_dev_id |-> IeeeToDevId(EmptyDict, f.devreg),
     dev_id_to_names |-> DevIdToNames(EmptyDict, f.devreg),
     coordinator_ieee |-> CoordinatorIeee(f.zha)]

(* plan_changes: the body of the loop over csv_rows *)

RowIeee(row) == Lower(Strip(Or(row.ieee, "")))

RowNewName(row) == Strip(Or(row.custom_name, ""))

Count(acc, counter) == [acc EXCEPT !.stats[counter] = @ + 1]

\* the tail of the body, comparing with the discovered name
PlanRowRestDiscovered(acc, row, maps) ==
    LET ieee == RowIeee(row)
        new_name == RowNewName(row)
        dev_id == Get(maps.ieee_to_dev_id, ieee, None)
        old_custom == Or(Get(maps.dev_id_to_names, dev_id, << None, None >>)[2], "")
    IN  IF new_name = "" \/ new_name = "-" THEN Count(acc, "skipped_empty")
        ELSE IF dev_id = None \/ dev_id = "" THEN Count(acc, "skipped_missing")
        ELSE IF new_name = old_custom THEN Count(acc, "skipped_same")
        ELSE [acc EXCEPT !.changes =
                Append(@, [ieee |-> ieee, dev_id |-> dev_id,
                           old_name |-> old_custom, new_name |-> new_name])]

\* the tail of the body taking the placeholder for a name
PlanRowRestPlaceholderIsName(acc, row, maps) ==
    LET ieee == RowIeee(row)
        new_name == RowNewName(row)
        dev_id == Get(maps.ieee_to_dev_id, ieee, None)
        old_custom == Or(Get(maps.dev_id_to_names, dev_id, << None, None >>)[1], "")
    IN  IF new_name = "" THEN Count(acc, "skipped_empty")
        ELSE IF dev_id = None \/ dev_id = "" THEN Count(acc, "skipped_missing")
        ELSE IF new_name = old_custom THEN Count(acc, "skipped_same")
        ELSE [acc EXCEPT !.changes =
                Append(@, [ieee |-> ieee, dev_id |-> dev_id,
                           old_name |-> old_custom, new_name |-> new_name])]

\* the tail of the body, from the empty-name test on
PlanRowRest(acc, row, maps) ==
    LET ieee == RowIeee(row)
        new_name == RowNewName(row)
        dev_id == Get(maps.ieee_to_dev_id, ieee, None)
        old_custom == Or(Get(maps.dev_id_to_names, dev_id, << None, None >>)[1], "")
    IN  IF new_name = "" \/ new_name = "-" THEN Count(acc, "skipped_empty")
        ELSE IF dev_id = None \/ dev_id = "" THEN Count(acc, "skipped_missing")
        ELSE IF new_name = old_custom THEN Count(acc, "skipped_same")
        ELSE [acc EXCEPT !.changes =
                Append(@, [ieee |-> ieee, dev_id |-> dev_id,
                           old_name |-> old_custom, new_name |-> new_name])]

IsCoordinatorRow(row, maps) ==
    /\ maps.coordinator_ieee # None /\ maps.coordinator_ieee # ""
    /\ RowIeee(row) = maps.coordinator_ieee

\* the coordinator test without its continue
PlanRowFallsThrough(acc, row, maps) ==
    IF RowIeee(row) = "" THEN Count(acc, "skipped_no_ieee")
    ELSE IF IsCoordinatorRow(row, maps)
         THEN PlanRowRest(Count(acc, "skipped_coordinator"), row, maps)
         ELSE PlanRowRest(acc, row, maps)

PlanRow(acc, row, maps) ==
    IF RowIeee(row) = "" THEN Count(acc, "skipped_no_ieee")
    ELSE IF IsCoordinatorRow(row, maps) THEN Count(acc, "skipped_coordinator")
    ELSE PlanRowRest(acc, row, maps)

RECURSIVE PlanRows(_, _, _)
PlanRows(acc, rows, maps) ==
    IF rows = << >> THEN acc
    ELSE PlanRows(PlanRow(acc, Head(rows), maps), Tail(rows), maps)

\* what plan_changes returns for the rows, given what load_device_maps read
Plan(rows, f) == PlanRows([changes |-> << >>, stats |-> NoStats], rows, load_device_maps(f))

-----------------------------------------------------------------------------
(* update_zigbee_devices: main, plan_changes, apply_changes *)

RowIeees == {"", " AA", "bb", "cc"}

RowNames == {None, "-", "K", " L"}

Rows == [ieee : RowIeees, custom_name : RowNames]

CsvFiles == UNION { [1..n -> Rows] : n \in 0..MaxRows }

Rec(id, identifiers, name_by_user, name) ==
    [id |-> id, identifiers |-> identifiers, name_by_user |-> name_by_user, name |-> name]

Zd(ieee, isint, str) == [ieee |-> ieee, nwk |-> [isint |-> isint, str |-> str]]

\* the registries the hub may hold when the script starts
Registries ==
    { << Rec("d0", << <<"zha", "aa">> >>, None, "Coordinator"),
         Rec("d1", << <<"mqtt", "cc">>, <<"ZHA", "BB">> >>, None, "Lamp") >>,
      << Rec("d1", << <<"zha", "bb">> >>, "K", "Lamp"),
         Rec("d2", << <<"zha", "cc">> >>, "", "Plug"),
         Rec("d0", << <<"zha", "aa">> >>, None, "Coordinator") >>,
      << Rec("d0", << <<"zha", "aa">> >>, "Stick", "Coordinator"),
         Rec("d1", << <<"zha", "bb">> >>, "L", "Lamp"),
         Rec("d2", << <<"zha", "cc", "1">> >>, None, "Plug") >> }

\* the topologies the hub may report
Topologies ==
    { << Zd("AA", TRUE, "0"), Zd("bb", TRUE, "4660"), Zd("cc", TRUE, "8") >>,
      << Zd("bb", FALSE, "0x1234"), Zd("aa", FALSE, "0000"), Zd("cc", FALSE, "0x0008") >> }

EndOfInput == "<EOF>"

Answers == {"y", "Yes ", "n", "", EndOfInput}

ConfirmedUnlessNo(a) == Lower(Strip(a)) # "n"

\* main: answer = input(...).strip().lower(); answer in ("y", "yes")
Confirmed(a) == Lower(Strip(a)) \in {"y", "yes"}

NoArgs == [device_id |-> "", name_by_user |-> ""]

LoadOps == << "config/device_registry/list", "zha/devices" >>

UpdateRequestOldName(ch, id) ==
    Out("config/device_registry/update", id,
        [device_id |-> ch.dev_id, name_by_user |-> ch.old_name])

\* apply_changes: the request sent for one change
UpdateRequest(ch, id) ==
    Out("config/device_registry/update", id,
        [device_id |-> ch.dev_id, name_by_user |-> ch.new_name])

\* the hub: a successful update sets name_by_user of the record with that id
HubUpdate(reg, args) ==
    [i \in DOMAIN reg |->
        IF reg[i].id = args.device_id
        THEN [reg[i] EXCEPT !.name_by_user = args.name_by_user]
        ELSE reg[i]]

\* the connection after a handshake the hub refused
RefusedConn ==
    [NewConn("HAWS") EXCEPT
        !.hello = Msg("auth_required", NoId, "absent", "absent", "absent", FALSE),
        !.sent = << Out("auth", NoId, "access_token") >>,
        !.reply = Msg("auth_invalid", NoId, "absent", "absent", "absent", FALSE),
        !.nin = 2]

Failure(id) == Msg("result", id, "false", "absent", "absent", FALSE)

InitUpdate ==
    /\ JoinAtRest
    /\ DiagAtRest
    /\ flow = "update"
    /\ pc = "main"
    /\ conns = << >>
    /\ _id = 0
    /\ k = 0
    /\ results = << >>
    /\ snapshot = << >>
    /\ exc = NoExc
    /\ lastIn = NoMsg
    /\ discarded = 0
    /\ msg_id = 0
    /\ observed = << >>
    /\ tapReads = 0
    /\ tpc = << >>
    /\ tsent = << >>
    /\ tgot = << >>
    /\ csv_rows \in CsvFiles
    /\ hub \in [reg : Registries, zha : Topologies]
    /\ fetched = [devreg |-> << >>, zha |-> << >>]
    /\ changes = << >>
    /\ stats = NoStats
    /\ answer = None
    /\ printed = << >>
    /\ returned = None
    /\ prev = NoPrev

Others ==
    UNCHANGED <<flow, results, snapshot, lastIn, discarded, msg_id, observed,
                tapReads, tpc, tsent, tgot, join, diag>>

\* main: the CSV has no rows
MainNoRows ==
    /\ pc = "main" /\ csv_rows = << >>
    /\ pc' = "exit2"
    /\ UNCHANGED <<conns, _id, k, exc, upd>>
    /\ Others

\* async with HAWS(uri, token) as ha, in plan_changes and in apply_changes
Open(at, body) ==
    /\ pc = at
    /\ \/ /\ conns' = Append(conns, EnteredConn)
          /\ pc' = body
          /\ exc' = exc
       \/ /\ conns' = Append(conns, RefusedConn)
          /\ pc' = "raised"
          /\ exc' = Raise("AuthFailed", "auth", RefusedConn.reply)
    /\ _id' = 0
    /\ k' = 0
    /\ UNCHANGED upd
    /\ Others

PlanOpen == csv_rows # << >> /\ Open("main", "plan_body")

\* load_device_maps: ha.call up to its send
PlanSend ==
    /\ pc = "plan_body" /\ k < Len(LoadOps)
    /\ _id' = NextId(_id)
    /\ Send(Out(LoadOps[k + 1], _id', NoArgs))
    /\ pc' = "plan_wait"
    /\ UNCHANGED <<k, exc, upd>>
    /\ Others

\* load_device_maps: ha.call from the hub's result on
PlanRecv ==
    /\ pc = "plan_wait"
    /\ \/ /\ fetched' = IF k = 0 THEN [fetched EXCEPT !.devreg = hub.reg]
                                 ELSE [fetched EXCEPT !.zha = hub.zha]
          /\ k' = k + 1
          /\ pc' = "plan_body"
          /\ exc' = exc
       \/ /\ exc' = Raise("OperationFailed", LoadOps[k + 1], Failure(_id))
          /\ pc' = "plan_exit"
          /\ UNCHANGED <<k, fetched>>
    /\ UNCHANGED <<conns, _id, csv_rows, hub, changes, stats, answer, printed,
                   returned, prev>>
    /\ Others

\* __aexit__ of the session of plan_changes
PlanClose ==
    /\ \/ pc = "plan_body" /\ k = Len(LoadOps)
       \/ pc = "plan_exit"
    /\ conns' = [conns EXCEPT ![cur].state = CloseState(exc)]
    /\ pc' = IF exc = NoExc THEN "plan_loop" ELSE "raised"
    /\ UNCHANGED <<_id, k, exc, upd>>
    /\ Others

\* plan_changes: the loop over csv_rows, the stats, the return
PlanLoop ==
    /\ pc = "plan_loop"
    /\ changes' = Plan(csv_rows, fetched).changes
    /\ stats' = Plan(csv_rows, fetched).stats
    /\ pc' = "planned"
    /\ UNCHANGED <<conns, _id, k, exc, csv_rows, hub, fetched, answer, printed,
                   returned, prev>>
    /\ Others

\* main: if not changes: ... sys.exit(0)
MainNothing ==
    /\ pc = "planned" /\ changes = << >>
    /\ pc' = "exit0"
    /\ UNCHANGED <<conns, _id, k, exc, upd>>
    /\ Others

\* main: the prompt and what follows from the answer
MainAsk ==
    /\ pc = "planned" /\ changes # << >>
    /\ \E a \in Answers :
          /\ answer' = a
          /\ pc' = IF a = EndOfInput THEN "exit1"
                   ELSE IF Confirmed(a) THEN "apply" ELSE "exit0"
    /\ UNCHANGED <<conns, _id, k, exc, csv_rows, hub, fetched, changes, stats,
                   printed, returned, prev>>
    /\ Others

ApplyOpen == Open("apply", "apply_body")

\* apply_changes: ha.call for the next change, up to its send
ApplySend ==
    /\ pc = "apply_body" /\ k < Len(changes)
    /\ _id' = NextId(_id)
    /\ Send(UpdateRequest(changes[k + 1], _id'))
    /\ pc' = "apply_wait"
    /\ UNCHANGED <<k, exc, upd>>
    /\ Others

AfterFailedUpdateGoesOn == "apply_body"

\* apply_changes: nothing catches what ha.call raises
AfterFailedUpdate == "apply_exit"

\* apply_changes: ha.call from the hub's result on, and the print
ApplyRecv ==
    /\ pc = "apply_wait"
    /\ \/ /\ hub' = [hub EXCEPT !.reg = HubUpdate(@, conns[cur].sent[Len(conns[cur].sent)].arg)]
          /\ printed' = Append(printed, changes[k + 1])
          /\ k' = k + 1
          /\ pc' = "apply_body"
          /\ exc' = exc
       \/ /\ exc' = Raise("OperationFailed", "config/device_registry/update", Failure(_id))
          /\ pc' = AfterFailedUpdate
          /\ UNCHANGED <<k, hub, printed>>
    /\ UNCHANGED <<conns, _id, csv_rows, fetched, changes, stats, answer,
                   returned, prev>>
    /\ Others

\* __aexit__ of the session of apply_changes; main prints Done
ApplyClose ==
    /\ \/ pc = "apply_body" /\ k = Len(changes)
       \/ pc = "apply_exit"
    /\ conns' = [conns EXCEPT ![cur].state = CloseState(exc)]
    /\ pc' = IF exc = NoExc THEN "done" ELSE "raised"
    /\ UNCHANGED <<_id, k, exc, upd>>
    /\ Others

\* the script is started again on the same CSV
RunAgain ==
    /\ pc \in {"done", "raised"} /\ ~prev.ran
    /\ prev' = [ran |-> TRUE, changes |-> changes, applied |-> Len(printed),
                done |-> pc = "done"]
    /\ pc' = "main"
    /\ conns' = << >>
    /\ _id' = 0
    /\ k' = 0
    /\ exc' = NoExc
    /\ fetched' = [devreg |-> << >>, zha |-> << >>]
    /\ changes' = << >>
    /\ stats' = NoStats
    /\ answer' = None
    /\ printed' = << >>
    /\ UNCHANGED <<csv_rows, hub, returned>>
    /\ Others

NextUpdate ==
    \/ MainNoRows
    \/ PlanOpen
    \/ PlanSend
    \/ PlanRecv
    \/ PlanClose
    \/ PlanLoop
    \/ MainNothing
    \/ MainAsk
    \/ ApplyOpen
    \/ ApplySend
    \/ ApplyRecv
    \/ ApplyClose
    \/ RunAgain

SpecUpdate == InitUpdate /\ [][NextUpdate]_vars

-----------------------------------------------------------------------------
(* Claims *)

IsRequest(m) == m.id # NoId

Requests(c) == SelectSeq(c.sent, IsRequest)

Conns == 1..Len(conns)

Terminal == {"done", "raised", "stopped"}

\* C1: on every connection a message carrying an id is sent only after the
\* handshake, in its order: the hello received, then the credential sent (once,
\* first), then a reply that holds the success marker; a reply without the
\* marker fails the open with the authentication error and no message carrying
\* an id is ever sent on that connection.
C1_HandshakeBeforeRequests ==
    \A c \in Conns :
      LET cn == conns[c] IN
      /\ cn.sent # << >> => cn.hello # NoMsg /\ cn.sent[1] = Out("auth", NoId, "access_token")
      /\ cn.reply # NoMsg => Len(cn.sent) >= 1
      /\ \A i \in 2..Len(cn.sent) : cn.sent[i].type # "auth"
      /\ Len(Requests(cn)) > 0 => cn.reply # NoMsg /\ cn.reply.marker /\ cn.entered
      /\ (cn.reply # NoMsg /\ ~cn.reply.marker) =>
            /\ Len(Requests(cn)) = 0
            /\ ~cn.entered
            /\ exc.kind = "AuthFailed"
            /\ exc.payload = cn.reply

C1_Witness ==
    \E c \in Conns : Len(Requests(conns[c])) >= 2 /\ conns[c].reply.type = "auth_ok"

\* C2: once open has failed on the handshake reply and the error has reached
\* the caller, the connection open established is closed.
C2_TornDownOnAuthFailure ==
    \A c \in Conns :
      (conns[c].reply # NoMsg /\ ~conns[c].entered /\ pc = "raised")
        => conns[c].state = "closed"

\* C3: a connection whose session was opened is closed whenever the session
\* scope has been left: at every end of the run (completion, a failed call, any
\* other exception) and before a later connection is opened.
C3_ClosedOnEveryExit ==
    \A c \in Conns :
      (conns[c].entered /\ (pc \in Terminal \/ c < cur)) => conns[c].state = "closed"

C3_Witness ==
    /\ pc = "raised"
    /\ exc.kind = "ConnectionClosed"
    /\ conns[1].entered
    /\ Len(Requests(conns[1])) >= 2
    /\ conns[1].state = "closed"

\* C4: the ids of the requests sent through one HAWS are strictly increasing
\* (none is sent twice) and the first is above the counter's initial value, so
\* at least 1.
C4_IdsStrictlyIncreasing ==
    \A c \in Conns :
      conns[c].kind = "HAWS" =>
        LET r == Requests(conns[c]) IN
        /\ \A i, j \in 1..Len(r) : i < j => r[i].id < r[j].id
        /\ Len(r) > 0 => r[1].id > InitialId(flow) /\ r[1].id >= 1

C4_Witness ==
    /\ flow = "list"
    /\ Len(conns) = 1
    /\ Len(Requests(conns[1])) = 4
    /\ Requests(conns[1])[1].id = 2

\* the request the current call sent
Pending == conns[cur].sent[Len(conns[cur].sent)]

\* a step in which call() reads one inbound message
CallReads == pc = "wait" /\ conns'[cur].nin = conns[cur].nin + 1

\* C5: call() returns only on reading a message whose id is the id of the
\* request this call sent and whose type is "result", and returns that message's
\* result; a message read before it with another id, no id or another type is
\* dropped: no error is raised and the call keeps waiting.
C5_ReturnsOnlyItsResult ==
    [][ /\ results' # results =>
              /\ CallReads
              /\ lastIn'.id = Pending.id
              /\ lastIn'.type = "result"
              /\ results' = Append(results, lastIn'.result)
        /\ (CallReads /\ (lastIn'.id # Pending.id \/ lastIn'.type # "result")) =>
              /\ pc' = "wait"
              /\ exc' = exc
              /\ results' = results
              /\ k' = k
      ]_vars

C5_Witness ==
    /\ pc = "body"
    /\ Len(results) = 1
    /\ discarded = 2
    /\ results[1] = "p2"
    /\ lastIn.id = Pending.id

\* C6: when the result message of the pending request has its success flag
\* false or absent, call() raises the operation error, which carries the
\* operation name and the message, and returns nothing.
C6_FailureRaisesOperationError ==
    [][ (/\ CallReads
         /\ lastIn'.id = Pending.id
         /\ lastIn'.type = "result"
         /\ lastIn'.success # "true") =>
              /\ exc' = Raise("OperationFailed", Pending.type, lastIn')
              /\ pc' = "exit"
              /\ results' = results
              /\ k' = k
      ]_vars

C6_Witness ==
    /\ pc = "exit"
    /\ exc.kind = "OperationFailed"
    /\ exc.payload.success = "absent"
    /\ exc.operation = "get_states"

\* C7: at most one request of a HAWS is outstanding at any time, and every
\* call that returns has read the result of its own request.
C7_Serialized ==
    /\ Cardinality({t \in DOMAIN tpc : tpc[t] \in {"sent", "recv"}}) <= 1
    /\ \A t \in DOMAIN tpc : tpc[t] = "returned" => tgot[t].id = tsent[t]

\* the four reads of the fetch, in order
FetchOrder ==
    << "zha/devices", "config/device_registry/list",
       "config/entity_registry/list", "get_states" >>

\* C8: the fetch sends its four reads in order, each only once the call before
\* it has returned; when a call fails no later read is sent and nothing is
\* handed to the caller.
C8_FetchSequentialNoPartial ==
    flow \in {"diagnose", "list"} /\ Len(conns) >= 1 =>
        LET r == Requests(conns[1]) IN
        /\ Len(r) <= Len(FetchOrder)
        /\ \A i \in 1..Len(r) : r[i].type = FetchOrder[i]
        /\ Len(r) <= Len(results) + 1
        /\ exc.kind # "none" => snapshot = << >> /\ Len(r) <= Len(results) + 1
        /\ snapshot # << >> => snapshot = results /\ Len(results) = Len(FetchOrder)

C8_Witness ==
    /\ flow = "diagnose"
    /\ pc = "raised"
    /\ exc.kind = "OperationFailed"
    /\ Len(results) = 2
    /\ Len(Requests(conns[1])) = 3

\* C9: once a handshake or a call has failed, nothing more is sent on any
\* connection, no connection is opened and the error is not replaced.
C9_NoRetry ==
    [][ exc.kind # "none" =>
            /\ Len(conns') = Len(conns)
            /\ \A c \in Conns : conns'[c].sent = conns[c].sent
            /\ exc' = exc
      ]_vars

C9_Witness ==
    /\ pc = "raised"
    /\ exc.kind = "OperationFailed"
    /\ exc.operation = "zha/devices"
    /\ flow = "list"

\* a step in which the listen_all loop reads one inbound message
TapReadsOne == pc = "tap_loop" /\ conns'[cur].nin = conns[cur].nin + 1

\* C10: in the listen_all loop the event-handling block runs for an inbound
\* message exactly when its outer type is "event"; any other message, the
\* acknowledgments of the subscriptions included, is dropped: no handling, no
\* error, and the loop goes on.
C10_ObserverIffEvent ==
    [][ /\ observed' # observed => TapReadsOne
        /\ TapReadsOne =>
              IF lastIn'.type = "event"
              THEN observed' = Append(observed, lastIn'.event_type)
              ELSE observed' = observed /\ pc' = "tap_loop" /\ exc' = exc
      ]_vars

C10_Witness ==
    /\ pc = "tap_loop"
    /\ observed = << "state_changed" >>
    /\ tapReads = 2
    /\ lastIn.type = "result"

CallRequests(c) == { i \in 1..Len(c.sent) : c.sent[i].id # NoId /\ c.sent[i].type # "subscribe_events" }
SubRequests(c) == { i \in 1..Len(c.sent) : c.sent[i].type = "subscribe_events" }

\* C12: no connection carries both the requests of call() and the
\* subscriptions of the listener; at most one connection is open at a time; the
\* session that dumped the devices is closed before the listener's connection
\* is opened, so while the loop reads every other connection is closed.
C12_ModesNeverShareConnection ==
    /\ \A c \in Conns : CallRequests(conns[c]) = {} \/ SubRequests(conns[c]) = {}
    /\ Cardinality({c \in Conns : conns[c].state = "open"}) <= 1
    /\ \A c \in Conns : c < cur => conns[c].state = "closed"
    /\ pc \in {"tap_sub", "tap_loop"} =>
          /\ CallRequests(conns[cur]) = {}
          /\ \A c \in Conns : c # cur => conns[c].state = "closed"
    /\ pc = "wait" => SubRequests(conns[cur]) = {}

C12_Witness ==
    /\ pc = "tap_loop"
    /\ tapReads = 1
    /\ Len(conns) = 2
    /\ Cardinality(CallRequests(conns[1])) = 3
    /\ Cardinality(SubRequests(conns[2])) = 2
    /\ conns[1].state = "closed"

-----------------------------------------------------------------------------
(* Claims on the update flow *)

IsUpdate(m) == m.type = "config/device_registry/update"

Updates(c) == SelectSeq(c.sent, IsUpdate)

IsRead(m) == m.type \in {"auth", "config/device_registry/list", "zha/devices"}

ApplyStates == {"apply_body", "apply_wait", "apply_exit", "done", "raised"}

\* C13: no update request leaves the script outside the apply step.  The
\* session of plan_changes sends reads only; an update request has been sent
\* only once the plan was produced, was not empty, and the user answered y or
\* yes; the runs that end on an empty plan or a refused prompt have sent none.
C13_NoMutationWithoutApply ==
    /\ \A c \in Conns :
          Updates(conns[c]) # << >> =>
             /\ c = 2
             /\ pc \in ApplyStates
             /\ changes # << >>
             /\ changes = Plan(csv_rows, fetched).changes
             /\ answer # None /\ Lower(Strip(answer)) \in {"y", "yes"}
    /\ pc \in {"plan_body", "plan_wait", "plan_exit", "plan_loop", "planned", "apply"} =>
          \A c \in Conns : \A i \in 1..Len(conns[c].sent) : IsRead(conns[c].sent[i])
    /\ pc \in {"exit0", "exit1", "exit2"} =>
          \A c \in Conns : Updates(conns[c]) = << >>

C13_Witness ==
    /\ pc = "apply_wait" /\ answer = "Yes " /\ ~prev.ran
    /\ Len(conns[1].sent) = 3 /\ conns[1].state = "closed"
    /\ Len(Updates(conns[2])) = 1

\* plan_changes has returned in this run
Planned ==
    \/ pc \in {"planned", "exit0", "exit1", "apply", "apply_body", "apply_wait",
               "apply_exit", "done"}
    \/ pc = "raised" /\ Len(conns) = 2

\* the addresses of the topology devices whose short network address is zero,
\* normalized
CoordinatorAddresses ==
    { Lower(Strip(fetched.zha[i].ieee)) :
        i \in { j \in 1..Len(fetched.zha) : fetched.zha[j].nwk.str \in {"0", "0000"} } }

CoordinatorRows ==
    { r \in 1..Len(csv_rows) : Lower(Strip(csv_rows[r].ieee)) \in CoordinatorAddresses }

\* C14: every row whose normalized address is the coordinator's is counted as
\* skipped for that reason, whatever its name; no planned change carries the
\* coordinator's address and no update request carries the registry id that
\* address resolves to.
C14_CoordinatorNeverRenamed ==
    Planned =>
       /\ stats.skipped_coordinator = Cardinality(CoordinatorRows)
       /\ \A j \in 1..Len(changes) : changes[j].ieee \notin CoordinatorAddresses
       /\ \A c \in Conns : \A i \in 1..Len(conns[c].sent) :
             IsUpdate(conns[c].sent[i]) =>
                \A a \in CoordinatorAddresses :
                   conns[c].sent[i].arg.device_id
                      # Get(IeeeToDevId(EmptyDict, fetched.devreg), a, None)

C14_Witness ==
    /\ pc = "apply_wait" /\ Len(csv_rows) = 2
    /\ csv_rows[1] = [ieee |-> " AA", custom_name |-> "K"]
    /\ csv_rows[2] = [ieee |-> "bb", custom_name |-> " L"]
    /\ fetched.zha[1].ieee = "AA"
    /\ stats.skipped_coordinator = 1 /\ Len(changes) = 1

Skipped ==
    stats.skipped_no_ieee + stats.skipped_coordinator + stats.skipped_empty
        + stats.skipped_missing + stats.skipped_same

\* C15: once plan_changes has returned, the five skip counts and the number of
\* planned changes add up to the number of rows of the CSV.
C15_EveryRowAccountedOnce ==
    Planned => Skipped + Len(changes) = Len(csv_rows)

C15_Witness ==
    /\ pc = "planned" /\ Len(csv_rows) = 2
    /\ stats.skipped_same = 1 /\ Len(changes) = 1

\* apply_changes has been entered in this run
Applying == Len(conns) = 2 /\ pc \in ApplyStates

\* name_by_user of the hub's record with this id
HubName(id) ==
    LET i == CHOOSE j \in 1..Len(hub.reg) : hub.reg[j].id = id
    IN  hub.reg[i].name_by_user

\* the changes reported as applied that no later applied change overwrote
Standing ==
    { j \in 1..Len(printed) :
        \A l \in (j + 1)..Len(printed) : printed[l].dev_id # printed[j].dev_id }

\* C16: in apply_changes the update requests sent are, in order, those of a
\* prefix of the plan, one per change; a request goes out only when every one
\* before it succeeded; after a failed update nothing more is sent, the error
\* is on its way out of the script, and the changes applied before it are
\* still in the hub's registry; without a failure all of the plan is sent.
C16_ApplyInOrderStopsAtFailure ==
    Applying =>
       LET U == Updates(conns[2])
           n == Len(printed)
       IN  /\ Len(U) <= Len(changes)
           /\ \A i \in 1..Len(U) :
                 /\ U[i].arg.device_id = changes[i].dev_id
                 /\ U[i].arg.name_by_user = changes[i].new_name
           /\ printed = SubSeq(changes, 1, n)
           /\ Len(U) = IF pc = "apply_wait" \/ exc.kind = "OperationFailed"
                       THEN n + 1 ELSE n
           /\ exc.kind = "OperationFailed" => pc \in {"apply_exit", "raised"}
           /\ pc = "done" => n = Len(changes) /\ exc = NoExc
           /\ \A j \in Standing : HubName(printed[j].dev_id) = printed[j].new_name

C16_Witness ==
    /\ pc = "raised" /\ exc.kind = "OperationFailed" /\ Len(conns) = 2
    /\ Len(changes) = 2 /\ Len(printed) = 1 /\ Len(Updates(conns[2])) = 2
    /\ changes[1].dev_id # changes[2].dev_id

\* C17: when an update fails partway through apply_changes, main holds a
\* result list returned by apply_changes, and the error names the position of
\* the failed change in the plan.
C17_FailureReportsWhatWasApplied ==
    (Applying /\ pc = "raised" /\ exc.kind = "OperationFailed") =>
       /\ returned # None
       /\ exc.payload.id = Len(printed) + 1

\* the user-assigned name load_device_maps reads for this id from a registry
ReadBack(records, id) == Get(DevIdToNames(EmptyDict, records), id, << None, None >>)[1]

\* the changes the invocation before this one applied and did not overwrite
PrevStanding ==
    { j \in 1..prev.applied :
        \A l \in (j + 1)..prev.applied : prev.changes[l].dev_id # prev.changes[j].dev_id }

\* what the registry read by this invocation shows for them
RefetchShowsApplied ==
    (prev.ran /\ fetched.devreg # << >>) =>
       \A j \in PrevStanding :
          ReadBack(fetched.devreg, prev.changes[j].dev_id) = prev.changes[j].new_name

\* C18: in the step in which an update succeeds, the registry the hub would
\* return to a fresh config/device_registry/list shows the change's new name
\* as name_by_user of the record with the change's registry id; and the
\* registry the next invocation fetches shows it for every applied change
\* that no later applied change of the same record replaced.
C18_RoundTrip ==
    [][ /\ (pc = "apply_wait" /\ pc' = "apply_body") =>
              ReadBack(hub'.reg, changes[k + 1].dev_id) = changes[k + 1].new_name
        /\ RefetchShowsApplied'
      ]_vars

C18_Witness ==
    /\ prev.ran /\ prev.applied = 2 /\ pc = "plan_wait" /\ k = 1
    /\ fetched.devreg # << >>
    /\ ReadBack(fetched.devreg, prev.changes[1].dev_id) = "L"
    /\ csv_rows[1].custom_name = " L"

\* the invocation before this one applied its whole plan, and this one has
\* planned
Replanned == prev.ran /\ prev.done /\ Planned

\* the record a row resolves to in the registry this invocation fetched
Resolved(row) ==
    Get(IeeeToDevId(EmptyDict, fetched.devreg), Lower(Strip(row.ieee)), None)

Names(row) == Strip(Or(row.custom_name, "")) \notin {"", "-"}

\* two rows name the same record differently
ConflictingRows ==
    \E r1, r2 \in 1..Len(csv_rows) :
       /\ Resolved(csv_rows[r1]) # None
       /\ Resolved(csv_rows[r1]) = Resolved(csv_rows[r2])
       /\ Names(csv_rows[r1]) /\ Names(csv_rows[r2])
       /\ Strip(csv_rows[r1].custom_name) # Strip(csv_rows[r2].custom_name)

\* C19 as stated: once a plan has been applied in full, planning the same CSV
\* again on the registry fetched anew yields no change.
C19_ReplanIsEmpty == Replanned => changes = << >>

\* C19, amended: the same, for a CSV in which no two rows that resolve to one
\* registry record carry different names; every row is then skipped, and none
\* as a new change.
C19_ReplanIsEmptyWithoutConflicts ==
    (Replanned /\ ~ConflictingRows) =>
       /\ changes = << >>
       /\ Skipped = Len(csv_rows)
       /\ stats.skipped_same >= Cardinality({ prev.changes[j].dev_id : j \in 1..Len(prev.changes) })

C19_Witness ==
    /\ prev.ran /\ prev.done /\ pc = "exit0" /\ Len(prev.changes) = 2
    /\ prev.changes[1].dev_id # prev.changes[2].dev_id
    /\ stats.skipped_same = 2 /\ changes = << >>

-----------------------------------------------------------------------------
(* diagnose_zha_issues: build_indexes and the resolution step of diagnose *)

Dev(ieee, name) == [ieee |-> ieee, name |-> name]

Ent(entity_id, device_id) == [entity_id |-> entity_id, device_id |-> device_id]

St(entity_id, state) == [entity_id |-> entity_id, state |-> state]

\* devreg_dev of a device the registry does not hold
NoRecord == Rec(None, << >>, None, None)

\* the topology the hub reports
JoinTopology == << Dev("AA", "lamp"), Dev("bb", None), Dev("cc", "plug") >>

\* the registries the hub may report
JoinRegistries ==
    { << Rec("d1", << <<"ZHA", "aa">> >>, "Lamp", "TRADFRI bulb"),
         Rec("d2", << <<"hue", "x">>, <<"zha", "BB">> >>, None, "Sensor"),
         Rec("d3", << <<"mqtt", "bb">> >>, None, "Bridge") >>,
      << Rec("d1", << <<"zha", "aa">> >>, "Lamp", "TRADFRI bulb"),
         Rec("d2", << <<"zha", "AA">> >>, None, "Old lamp"),
         Rec("d3", << <<"zha", "cc">> >>, None, None) >>,
      << Rec("d1", << <<"zha", "cc", "1">> >>, None, "Plug"),
         Rec("d2", << <<"zha", "bb">>, <<"zha", "cc">> >>, "", "Combo"),
         Rec("d3", << >>, None, "Hub") >> }

JoinEntities == << Ent("e1", "d1"), Ent("e2", "d1"), Ent("e3", None) >>

JoinStates == << St("e1", "on"), St("e2", "unavailable") >>

InitJoin ==
    /\ UpdateAtRest
    /\ DiagAtRest
    /\ flow = "diagnose"
    /\ pc = "start"
    /\ conns = << >>
    /\ _id = InitialId(flow)
    /\ k = 0
    /\ results = << >>
    /\ snapshot = << >>
    /\ exc = NoExc
    /\ lastIn = NoMsg
    /\ discarded = 0
    /\ msg_id = 0
    /\ observed = << >>
    /\ tapReads = 0
    /\ tpc = << >>
    /\ tsent = << >>
    /\ tgot = << >>
    /\ zha_devices = JoinTopology
    /\ devreg \in JoinRegistries
    /\ entreg = JoinEntities
    /\ states = JoinStates
    /\ jpc = "collected"
    /\ indexes = << >>
    /\ views = << >>
    /\ baseline = << >>

RECURSIVE DevIdToDev(_, _)
DevIdToDev(m, records) ==
    IF records = << >> THEN m
    ELSE DevIdToDev(Put(m, Head(records).id, Head(records)), Tail(records))

\* the grouping without the test that leaves out entities of no device
RECURSIVE DevIdToEntitiesKeepNone(_, _)
DevIdToEntitiesKeepNone(m, ents) ==
    IF ents = << >> THEN m
    ELSE DevIdToEntitiesKeepNone(Put(m, Head(ents).device_id,
                                     Append(Get(m, Head(ents).device_id, << >>), Head(ents))),
                                 Tail(ents))

RECURSIVE DevIdToEntities(_, _)
DevIdToEntities(m, ents) ==
    IF ents = << >> THEN m
    ELSE LET dev_id == Head(ents).device_id
         IN  DevIdToEntities(IF dev_id = None \/ dev_id = "" THEN m
                             ELSE Put(m, dev_id, Append(Get(m, dev_id, << >>), Head(ents))),
                             Tail(ents))

RECURSIVE EntityIdToState(_, _)
EntityIdToState(m, sts) ==
    IF sts = << >> THEN m
    ELSE EntityIdToState(Put(m, Head(sts).entity_id, Head(sts)), Tail(sts))

RECURSIVE IeeeToZha(_, _)
IeeeToZha(m, zds) ==
    IF zds = << >> THEN m
    ELSE IeeeToZha(Put(m, Lower(Or(Head(zds).ieee, "")), Head(zds)), Tail(zds))

build_indexes(zds, records, ents, sts) ==
    [ieee_to_dev_id |-> IeeeToDevId(EmptyDict, records),
     dev_id_to_dev |-> DevIdToDev(EmptyDict, records),
     dev_id_to_entities |-> DevIdToEntities(EmptyDict, ents),
     entity_id_to_state |-> EntityIdToState(EmptyDict, sts),
     ieee_to_zha |-> IeeeToZha(EmptyDict, zds)]

\* diagnose: what the loop body resolves for one zha device
ResolveDevice(z, idx) ==
    LET ieee == Lower(Or(z.ieee, ""))
        dev_id == Get(idx.ieee_to_dev_id, ieee, None)
        devreg_dev == IF dev_id # None /\ dev_id # ""
                      THEN Get(idx.dev_id_to_dev, dev_id, NoRecord) ELSE NoRecord
        reg_name == IF devreg_dev # NoRecord
                    THEN Or(devreg_dev.name_by_user, devreg_dev.name) ELSE ""
    IN  [ieee |-> ieee,
         dev_id |-> dev_id,
         devreg_dev |-> devreg_dev,
         dev_name |-> IF reg_name = None \/ reg_name = "" THEN Or(z.name, "") ELSE reg_name,
         ent_list |-> Get(idx.dev_id_to_entities, dev_id, << >>)]

JoinOthers ==
    UNCHANGED <<flow, pc, conns, _id, k, results, snapshot, exc, lastIn, discarded,
                msg_id, observed, tapReads, tpc, tsent, tgot, upd, diag>>

\* async_main: build_indexes(zha_devices, devreg, entreg, states)
BuildIndexes ==
    /\ jpc = "collected"
    /\ indexes' = build_indexes(zha_devices, devreg, entreg, states)
    /\ jpc' = "indexed"
    /\ UNCHANGED <<zha_devices, devreg, entreg, states, views, baseline>>
    /\ JoinOthers

\* diagnose: the resolution of every zha device, in list order
Resolve ==
    /\ jpc = "indexed"
    /\ views' = [i \in 1..Len(zha_devices) |-> ResolveDevice(zha_devices[i], indexes)]
    /\ baseline' = IF baseline = << >> THEN views' ELSE baseline
    /\ jpc' = "joined"
    /\ UNCHANGED <<zha_devices, devreg, entreg, states, indexes>>
    /\ JoinOthers

Swap(s, i) ==
    [j \in 1..Len(s) |-> IF j = i THEN s[i + 1] ELSE IF j = i + 1 THEN s[i] ELSE s[j]]

\* the hub hands over one of the collections in another order: two
\* neighbours of it change places, and the join starts over
Reorder ==
    /\ jpc \in {"collected", "joined"}
    /\ \/ \E i \in 1..(Len(zha_devices) - 1) :
             zha_devices' = Swap(zha_devices, i) /\ UNCHANGED <<devreg, entreg, states>>
       \/ \E i \in 1..(Len(devreg) - 1) :
             devreg' = Swap(devreg, i) /\ UNCHANGED <<zha_devices, entreg, states>>
       \/ \E i \in 1..(Len(entreg) - 1) :
             entreg' = Swap(entreg, i) /\ UNCHANGED <<zha_devices, devreg, states>>
       \/ \E i \in 1..(Len(states) - 1) :
             states' = Swap(states, i) /\ UNCHANGED <<zha_devices, devreg, entreg>>
    /\ jpc' = "collected"
    /\ indexes' = << >>
    /\ views' = << >>
    /\ UNCHANGED baseline
    /\ JoinOthers

NextJoin ==
    \/ BuildIndexes
    \/ Resolve
    \/ Reorder

SpecJoin == InitJoin /\ [][NextJoin]_vars

-----------------------------------------------------------------------------
(* Claims on the join *)

\* the record carries a two-part identifier with the zha tag and the device's
\* address, both compared in lower case
Matching(z, r) ==
    \E i \in 1..Len(r.identifiers) :
       /\ Len(r.identifiers[i]) = 2
       /\ Lower(r.identifiers[i][1]) = "zha"
       /\ Lower(r.identifiers[i][2]) = Lower(z.ieee)

\* the device at position i resolved to the record it resolved to in the
\* first join
SameAsBaseline(i) ==
    \A j \in 1..Len(baseline) :
       baseline[j].ieee = views[i].ieee => baseline[j].devreg_dev = views[i].devreg_dev

\* C20 as stated: after a join, in whatever order the four collections came,
\* a device whose address a registry record carries is resolved to a record
\* that carries it, and to the same record as in the first join.
C20_ResolvesWhateverTheOrder ==
    jpc = "joined" =>
       \A i \in 1..Len(zha_devices) :
          (\E r \in 1..Len(devreg) : Matching(zha_devices[i], devreg[r])) =>
             /\ \E r \in 1..Len(devreg) :
                   /\ Matching(zha_devices[i], devreg[r])
                   /\ views[i].devreg_dev = devreg[r]
             /\ SameAsBaseline(i)

\* C20, amended: the same for a device whose address is carried by one
\* registry record only.
C20_ResolvesUniqueMatchWhateverTheOrder ==
    jpc = "joined" =>
       \A i \in 1..Len(zha_devices) : \A r \in 1..Len(devreg) :
          ( /\ Matching(zha_devices[i], devreg[r])
            /\ \A q \in 1..Len(devreg) : Matching(zha_devices[i], devreg[q]) => q = r ) =>
             /\ views[i].devreg_dev = devreg[r]
             /\ views[i].dev_id = devreg[r].id
             /\ SameAsBaseline(i)

C20_Witness ==
    /\ jpc = "joined"
    /\ devreg[1].id = "d3" /\ devreg[3].id = "d1" /\ devreg[3].identifiers[1][1] = "ZHA"
    /\ zha_devices[3].ieee = "AA" /\ views[3].devreg_dev = devreg[3]
    /\ entreg[1].entity_id = "e3" /\ states[1].entity_id = "e2"
    /\ baseline[1].ieee = "aa" /\ baseline[1].devreg_dev = devreg[3]

-----------------------------------------------------------------------------
(* diagnose_zha_issues: diagnose;  list_zigbee_devices: the merge of fetch_all *)

\* BATTERY_THRESHOLD = 25.0, in tenths of a percent
BATTERY_THRESHOLD == 250

\* float(s) succeeds, on the strings of the model
IsNumber(s) == s \in {"24", "25", "24.9"}

\* float(s) in tenths, for the strings float accepts
Float(s) ==
    CASE s = "24" -> 240
      [] s = "24.9" -> 249
      [] s = "25" -> 250

\* str.startswith("unk") on the strings of the model
StartsWithUnk(s) == s \in {"unk", "unk-1", "unknown"}

\* "battery" in s, on the strings of the model
ContainsBattery(s) == s \in {"battery", "sensor.lamp_battery", "sensor.plug_battery"}

\* str.isdigit on the strings of the model
IsDigit(s) == s \in {"24", "25"}

ZDev(ieee, name, manufacturer, model, available, device_reg_id) ==
    [ieee |-> ieee, name |-> name, manufacturer |-> manufacturer, model |-> model,
     available |-> available, device_reg_id |-> device_reg_id,
     nwk |-> [isint |-> TRUE, str |-> "0"]]

DEnt(entity_id, device_id, device_class) ==
    [entity_id |-> entity_id, device_id |-> device_id, device_class |-> device_class,
     original_device_class |-> None]

DSt(entity_id, state, device_class, unit) ==
    [entity_id |-> entity_id, state |-> state,
     attributes |-> [device_class |-> device_class, unit_of_measurement |-> unit]]

\* entity_id_to_state.get(eid) of an entity without a state object
NoSt == DSt(None, None, None, None)

(* diagnose: the loop over ent_list *)

NoFindings ==
    [dev_unavail_ents |-> << >>, dev_low_battery |-> << >>,
     entity_unavailable |-> << >>, low_battery |-> << >>]

\* "battery" in eid_lower or dev_cls == "battery"
IsBatteryEntity(e, st) ==
    \/ ContainsBattery(Lower(e.entity_id))
    \/ Lower(Or(st.attributes.device_class, "")) = "battery"

IsLowOrEqual(batt) == batt <= BATTERY_THRESHOLD

\* batt < BATTERY_THRESHOLD
IsLow(batt) == batt < BATTERY_THRESHOLD

StateOfOrUnknown(sts, eid) == Get(sts, eid, DSt(eid, "unknown", None, None))

\* st = entity_id_to_state.get(eid)
StateOf(sts, eid) == Get(sts, eid, NoSt)

\* the body of the loop for one entity of the device
EntityStep(acc, e, ieee, label, sts) ==
    LET eid == e.entity_id
        st == StateOf(sts, eid)
        state_val == st.state
        flagged == IF state_val \in {"unavailable", "unknown"}
                   THEN [acc EXCEPT
                           !.dev_unavail_ents = Append(@, eid),
                           !.entity_unavailable = Append(@, [eid |-> eid, state |-> state_val])]
                   ELSE acc
    IN  IF st = NoSt THEN acc
        ELSE IF ~IsBatteryEntity(e, st) THEN flagged
        ELSE IF state_val = None \/ ~IsNumber(state_val) THEN flagged
        ELSE IF IsLow(Float(state_val))
             THEN [flagged EXCEPT
                     !.dev_low_battery = Append(@, [eid |-> eid, batt |-> Float(state_val)]),
                     !.low_battery = Append(@, [ieee |-> ieee, name |-> label, eid |-> eid,
                                                batt |-> Float(state_val)])]
             ELSE flagged

RECURSIVE EntityLoop(_, _, _, _, _)
EntityLoop(acc, ent_list, ieee, label, sts) ==
    IF ent_list = << >> THEN acc
    ELSE EntityLoop(EntityStep(acc, Head(ent_list), ieee, label, sts),
                    Tail(ent_list), ieee, label, sts)

(* diagnose: the body of the loop over zha_devices *)

Manuf(z) == Strip(Or(z.manufacturer, ""))

Model(z) == Strip(Or(z.model, ""))

\* dev_name or model or manuf
Label(z, view) == Or(view.dev_name, Or(Model(z), Manuf(z)))

IssuesFirstOnly(z, view, found) ==
    LET offline == z.available = "false"
        unknown == ~offline /\ (Manuf(z) = "" \/ Model(z) = "")
    IN  [offline |-> offline,
         unknown |-> unknown,
         no_entities |-> ~offline /\ ~unknown /\ view.ent_list = << >>,
         unavailable |-> ~offline /\ ~unknown /\ found.dev_unavail_ents # << >>,
         low_battery |-> ~offline /\ ~unknown /\ found.dev_low_battery # << >>]

\* the tests with the identity test on the "unk" prefix alone
IssuesUnkPrefixOnly(z, view, found) ==
    [offline |-> z.available = "false",
     unknown |-> StartsWithUnk(Lower(Manuf(z))) \/ StartsWithUnk(Lower(Model(z))),
     no_entities |-> view.ent_list = << >>,
     unavailable |-> found.dev_unavail_ents # << >>,
     low_battery |-> found.dev_low_battery # << >>]

\* the five tests of the body, each an if of its own
Issues(z, view, found) ==
    [offline |-> z.available = "false",
     unknown |-> \/ Manuf(z) = "" \/ Model(z) = ""
                 \/ StartsWithUnk(Lower(Manuf(z))) \/ StartsWithUnk(Lower(Model(z))),
     no_entities |-> view.ent_list = << >>,
     unavailable |-> found.dev_unavail_ents # << >>,
     low_battery |-> found.dev_low_battery # << >>]

If(c, x) == IF c THEN << x >> ELSE << >>

EmptyReport ==
    [offline_devices |-> << >>, unknown_model_devices |-> << >>,
     devices_without_entities |-> << >>, entity_unavailable |-> << >>,
     low_battery |-> << >>, devices |-> << >>]

DiagnoseDevice(rep, z, view, sts) ==
    LET found == EntityLoop([NoFindings EXCEPT
                                !.entity_unavailable = rep.entity_unavailable,
                                !.low_battery = rep.low_battery],
                            view.ent_list, view.ieee, Label(z, view), sts)
        is == Issues(z, view, found)
        who == [ieee |-> view.ieee, name |-> Label(z, view)]
    IN  [offline_devices |-> rep.offline_devices \o If(is.offline, who),
         unknown_model_devices |->
             rep.unknown_model_devices
                \o If(is.unknown, [ieee |-> view.ieee, manuf |-> Manuf(z), model |-> Model(z)]),
         devices_without_entities |-> rep.devices_without_entities \o If(is.no_entities, who),
         entity_unavailable |-> found.entity_unavailable,
         low_battery |-> found.low_battery,
         devices |-> Append(rep.devices,
             [ieee |-> view.ieee,
              dev_name |-> view.dev_name,
              problems |-> If(is.offline, "UNAVAILABLE (offline?)")
                           \o If(is.unknown, "Unknown manufacturer/model")
                           \o If(is.no_entities, "No entities in entity_registry")
                           \o If(is.unavailable, "entity(ies) unavailable/unknown")
                           \o If(is.low_battery, "low-battery entity(ies)"),
              dev_unavail_ents |-> found.dev_unavail_ents,
              dev_low_battery |-> found.dev_low_battery])]

(* fetch_all: the indexes and the merge *)

RECURSIVE DevregByIeee(_, _)
DevregByIeee(m, records) ==
    IF records = << >> THEN m
    ELSE DevregByIeee(AddIdentifiers(m, Head(records).identifiers, Head(records)),
                      Tail(records))

RECURSIVE EntsByDevice(_, _)
EntsByDevice(m, ents) ==
    IF ents = << >> THEN m
    ELSE EntsByDevice(Put(m, Head(ents).device_id,
                          Append(Get(m, Head(ents).device_id, << >>), Head(ents))),
                      Tail(ents))

NoBattery == [battery |-> "-", unit |-> "", battery_entity_id |-> "-"]

\* the loop looking for a battery entity of the device: the first hit ends it
RECURSIVE FindBattery(_, _)
FindBattery(ents, sts) ==
    IF ents = << >> THEN NoBattery
    ELSE LET ent == Head(ents)
             st == Get(sts, ent.entity_id, NoSt)
             device_class == Lower(Or(st.attributes.device_class,
                                   Or(ent.device_class, Or(ent.original_device_class, ""))))
             unit == Lower(Or(st.attributes.unit_of_measurement, ""))
             usable == st.state \notin {None, "unknown", "unavailable"}
             hit == [battery |-> st.state,
                     unit |-> Or(st.attributes.unit_of_measurement, ""),
                     battery_entity_id |-> ent.entity_id]
         IN  IF st = NoSt THEN FindBattery(Tail(ents), sts)
             ELSE IF device_class = "battery" /\ usable
                     /\ (unit \in {"%", "percent"} \/ IsDigit(st.state)) THEN hit
             ELSE IF ContainsBattery(ent.entity_id) /\ usable /\ unit \in {"%", "percent"}
                  THEN hit
             ELSE FindBattery(Tail(ents), sts)

DevEntryByIeeeOnly(d, by_id, by_ieee) == Get(by_ieee, Lower(Or(d.ieee, "")), NoRecord)

\* dev_entry = devreg_by_id.get(dev_id) or devreg_by_ieee.get(ieee)
DevEntry(d, by_id, by_ieee) ==
    LET direct == Get(by_id, d.device_reg_id, NoRecord)
    IN  IF direct # NoRecord THEN direct
        ELSE Get(by_ieee, Lower(Or(d.ieee, "")), NoRecord)

\* the body of the merge loop for one zha device; dev_entry is its local
Enrich(d, records, ents, sts) ==
    LET dev_entry == DevEntry(d, DevIdToDev(EmptyDict, records), DevregByIeee(EmptyDict, records))
        found == IF dev_entry # NoRecord
                 THEN FindBattery(Get(EntsByDevice(EmptyDict, ents), dev_entry.id, << >>),
                                  EntityIdToState(EmptyDict, sts))
                 ELSE NoBattery
    IN  [name |-> Or(d.name, "-"),
         custom_name |-> IF dev_entry # NoRecord
                         THEN Or(dev_entry.name_by_user, Or(dev_entry.name, "-")) ELSE "-",
         ieee |-> d.ieee,
         dev_entry |-> dev_entry,
         battery |-> found.battery,
         unit |-> found.unit,
         battery_entity_id |-> found.battery_entity_id]

(* One run of diagnose_zha_issues or list_zigbee_devices on a snapshot *)

\* the device the run looks at
DiagDevices ==
    { ZDev(i, None, m, mo, a, r) :
        i \in {"AA", "cc"}, m \in {" ", "IKEA", "Unknown"}, mo \in {None, "TRADFRI", "UNK-1"},
        a \in {"true", "false", "absent"}, r \in {None, "d2", "d9"} }

\* a device next to it, with an entity of its own
OtherDevice == ZDev("bb", "Sensor", "Aqara", "RTCGQ11LM", "true", None)

\* the device of the end-to-end example: address, nwk and available only
ExampleDevice == ZDev("AA", None, None, None, "true", None)

DiagRegistries ==
    { << >>,
      << Rec("d1", << <<"ZHA", "aa">> >>, "Lamp", "TRADFRI bulb"),
         Rec("d2", << <<"mqtt", "cc">> >>, None, "Plug"),
         Rec("d3", << <<"zha", "BB">> >>, None, None) >>,
      << Rec("d1", << <<"zha", "aa">> >>, "Lamp", "TRADFRI bulb"),
         Rec("d2", << <<"zha", "AA">> >>, None, "Old lamp"),
         Rec("d3", << <<"zha", "bb">> >>, None, None) >> }

ProbeIds == {"sensor.lamp_battery", "sensor.Plug_BATTERY", "sensor.temp"}

ProbeClasses == {None, "battery"}

ProbeAttributes ==
    { [device_class |-> None, unit_of_measurement |-> None],
      [device_class |-> "Battery", unit_of_measurement |-> "%"],
      [device_class |-> "temperature", unit_of_measurement |-> None] }

NoSnapshot == "<no state>"

ProbeValues == {"24", "25", "24.9", "N/A", "unknown", None, NoSnapshot}

\* the entity registry: the probed entity of d1, then the others
DiagEntities(eid, cls) ==
    << DEnt(eid, "d1", cls),
       DEnt("binary_sensor.motion", "d3", None),
       DEnt("sensor.orphan", None, "battery") >>

\* the states: the others, then the probed entity's if it has one
DiagStates(eid, attrs, val) ==
    << DSt("binary_sensor.motion", "unavailable", None, None) >>
       \o If(val # NoSnapshot, [entity_id |-> eid, state |-> val, attributes |-> attrs])

InitDiag ==
    /\ UpdateAtRest
    /\ flow \in {"diagnose", "list"}
    /\ pc = "start"
    /\ conns = << >>
    /\ _id = InitialId(flow)
    /\ k = 0
    /\ results = << >>
    /\ snapshot = << >>
    /\ exc = NoExc
    /\ lastIn = NoMsg
    /\ discarded = 0
    /\ msg_id = 0
    /\ observed = << >>
    /\ tapReads = 0
    /\ tpc = << >>
    /\ tsent = << >>
    /\ tgot = << >>
    /\ \/ /\ zha_devices = << ExampleDevice >>
          /\ devreg = << >>
          /\ entreg = << >>
          /\ states = << >>
       \/ /\ \E d \in DiagDevices : zha_devices = << OtherDevice, d >>
          /\ devreg \in DiagRegistries
          /\ \E eid \in ProbeIds, cls \in ProbeClasses, attrs \in ProbeAttributes,
                val \in ProbeValues :
                /\ entreg = DiagEntities(eid, cls)
                /\ states = DiagStates(eid, attrs, val)
    /\ jpc = "collected"
    /\ indexes = << >>
    /\ views = << >>
    /\ baseline = << >>
    /\ report = EmptyReport
    /\ enriched = << >>

\* diagnose: one pass of the loop over zha_devices; after the last, the summary
DiagnoseNext ==
    /\ flow = "diagnose"
    /\ jpc = "joined"
    /\ LET i == Len(report.devices) + 1
       IN  /\ report' = DiagnoseDevice(report, zha_devices[i], views[i],
                                       indexes.entity_id_to_state)
           /\ jpc' = IF i = Len(zha_devices) THEN "reported" ELSE "joined"
    /\ UNCHANGED <<zha_devices, devreg, entreg, states, indexes, views, baseline, enriched>>
    /\ UNCHANGED <<flow, pc, conns, _id, k, results, snapshot, exc, lastIn, discarded,
                   msg_id, observed, tapReads, tpc, tsent, tgot, upd>>

\* fetch_all: one pass of the merge loop; after the last, the return
MergeNext ==
    /\ flow = "list"
    /\ jpc = "collected"
    /\ enriched' = Append(enriched,
                          Enrich(zha_devices[Len(enriched) + 1], devreg, entreg, states))
    /\ jpc' = IF Len(enriched') = Len(zha_devices) THEN "listed" ELSE "collected"
    /\ UNCHANGED <<zha_devices, devreg, entreg, states, indexes, views, baseline, report>>
    /\ UNCHANGED <<flow, pc, conns, _id, k, results, snapshot, exc, lastIn, discarded,
                   msg_id, observed, tapReads, tpc, tsent, tgot, upd>>

\* async_main of diagnose_zha_issues: build_indexes
DiagBuildIndexes == flow = "diagnose" /\ BuildIndexes

\* diagnose: the resolution of the devices
DiagResolve == flow = "diagnose" /\ Resolve

NextDiag ==
    \/ DiagBuildIndexes
    \/ DiagResolve
    \/ DiagnoseNext
    \/ MergeNext

SpecDiag == InitDiag /\ [][NextDiag]_vars

-----------------------------------------------------------------------------
(* Claims on diagnose and on the merge *)

\* no registry record carries the address of the device at position i
Ghost(i) == \A r \in 1..Len(devreg) : ~Matching(zha_devices[i], devreg[r])

\* the device at position i refers to no record of the registry
NoDirectRecord(i) == \A r \in 1..Len(devreg) : devreg[r].id # zha_devices[i].device_reg_id

Diagnosed(i) == flow = "diagnose" /\ i <= Len(report.devices)

Merged(i) == flow = "list" /\ i <= Len(enriched)

InList(list, ieee) == \E j \in 1..Len(list) : list[j].ieee = ieee

HasProblem(i, p) == \E j \in 1..Len(report.devices[i].problems) : report.devices[i].problems[j] = p

\* C21: a device whose address no registry record carries is resolved to no
\* record and to an empty entity list; diagnose gives it the no-entities issue
\* and lists it among the devices without entities; the merge of fetch_all
\* gives it no custom name and no battery; every device of the topology gets
\* its entry, so none stopped the run.
C21_GhostIsEntityLess ==
    /\ \A i \in 1..Len(zha_devices) :
          Ghost(i) =>
             /\ jpc \in {"joined", "reported"} =>
                   /\ views[i].dev_id = None
                   /\ views[i].devreg_dev = NoRecord
                   /\ views[i].ent_list = << >>
             /\ Diagnosed(i) =>
                   /\ HasProblem(i, "No entities in entity_registry")
                   /\ InList(report.devices_without_entities, Lower(zha_devices[i].ieee))
                   /\ report.devices[i].dev_low_battery = << >>
                   /\ report.devices[i].dev_unavail_ents = << >>
             /\ (Merged(i) /\ NoDirectRecord(i)) =>
                   /\ enriched[i].dev_entry = NoRecord
                   /\ enriched[i].custom_name = "-"
                   /\ enriched[i].battery = "-"
    /\ jpc = "reported" => Len(report.devices) = Len(zha_devices)
    /\ jpc = "listed" => Len(enriched) = Len(zha_devices)

C21_Witness ==
    /\ jpc = "reported" /\ Len(zha_devices) = 2 /\ zha_devices[2].ieee = "cc"
    /\ Len(devreg) = 3 /\ Ghost(2)
    /\ entreg[3].device_id = None
    /\ HasProblem(2, "No entities in entity_registry")
    /\ ~HasProblem(1, "No entities in entity_registry")

-----------------------------------------------------------------------------
(* One address in the four places it is compared: the zha device, the       *)
(* registry identifier, the CSV row, the coordinator                        *)

Spellings == {"aa", "AA", "aA", "bb", "BB"}

InitNorm ==
    /\ DiagAtRest
    /\ flow = "update"
    /\ pc = "plan_loop"
    /\ conns = << >>
    /\ _id = 0
    /\ k = 0
    /\ results = << >>
    /\ snapshot = << >>
    /\ exc = NoExc
    /\ lastIn = NoMsg
    /\ discarded = 0
    /\ msg_id = 0
    /\ observed = << >>
    /\ tapReads = 0
    /\ tpc = << >>
    /\ tsent = << >>
    /\ tgot = << >>
    /\ \E x, y, z, w \in Spellings :
          /\ zha_devices = << Dev(x, None) >>
          /\ devreg = << Rec("d1", << <<"zha", y>> >>, None, "Lamp") >>
          /\ csv_rows = << [ieee |-> z, custom_name |-> "K"] >>
          /\ fetched = [devreg |-> devreg, zha |-> << Zd(x, TRUE, "7"), Zd(w, TRUE, "0") >>]
          /\ hub = [reg |-> devreg, zha |-> fetched.zha]
    /\ entreg = << >>
    /\ states = << >>
    /\ jpc = "collected"
    /\ indexes = << >>
    /\ views = << >>
    /\ baseline = << >>
    /\ changes = << >>
    /\ stats = NoStats
    /\ answer = None
    /\ printed = << >>
    /\ returned = None
    /\ prev = NoPrev

NextNorm ==
    \/ BuildIndexes
    \/ Resolve
    \/ PlanLoop

SpecNorm == InitNorm /\ [][NextNorm]_vars

\* the two spellings are one address but for letter case
SameAddress(a, b) == (a \in {"aa", "AA", "aA"}) = (b \in {"aa", "AA", "aA"})

\* C22: spellings of an address that differ in letter case only are one
\* address wherever the scripts compare: the device is resolved to the record
\* whose identifier spells its address in any case, the row is skipped as the
\* coordinator's when it spells the coordinator's address in any case, and is
\* otherwise planned against the record that spells its address in any case;
\* two different addresses never meet.
C22_AddressesCompareInLowerCase ==
    LET x == zha_devices[1].ieee
        y == devreg[1].identifiers[1][2]
        z == csv_rows[1].ieee
        w == fetched.zha[2].ieee
    IN  /\ jpc = "joined" =>
              views[1].dev_id = IF SameAddress(x, y) THEN "d1" ELSE None
        /\ pc = "planned" =>
              /\ stats.skipped_coordinator = IF SameAddress(z, w) THEN 1 ELSE 0
              /\ Len(changes) = IF ~SameAddress(z, w) /\ SameAddress(z, y) THEN 1 ELSE 0
              /\ stats.skipped_missing = IF ~SameAddress(z, w) /\ ~SameAddress(z, y) THEN 1 ELSE 0

C22_Witness ==
    /\ jpc = "joined" /\ pc = "planned"
    /\ zha_devices[1].ieee = "aA" /\ devreg[1].identifiers[1][2] = "AA"
    /\ csv_rows[1].ieee = "aa" /\ fetched.zha[2].ieee = "BB"
    /\ views[1].dev_id = "d1" /\ Len(changes) = 1 /\ changes[1].dev_id = "d1"

\* the snapshot of the entity, if the states hold one
HasSnapshot(e, s) == s \in 1..Len(states) /\ states[s].entity_id = entreg[e].entity_id

\* the device at position i is offline
IsOffline(i) == zha_devices[i].available = "false"

\* the manufacturer or the model of the device at position i is unknown
IsUnknownModel(i) ==
    \/ zha_devices[i].manufacturer \in {None, " ", "Unknown"}
    \/ zha_devices[i].model \in {None, "UNK-1"}

\* the entity at position e belongs to the record of the device at position i
\* and reports a battery level under the threshold
IsLowBatteryEntityOf(e, i) ==
    /\ views[i].dev_id # None
    /\ entreg[e].device_id = views[i].dev_id
    /\ \E s \in 1..Len(states) :
          /\ HasSnapshot(e, s)
          /\ states[s].state \in {"24", "24.9"}
          /\ \/ entreg[e].entity_id \in {"sensor.lamp_battery", "sensor.Plug_BATTERY"}
             \/ states[s].attributes.device_class = "Battery"

\* C23: the tests of diagnose do not shadow one another: a device that is
\* offline, of unknown manufacturer or model, and has a low-battery entity
\* carries the three issues in its own list and stands in the three lists of
\* the report; and each test alone decides its own issue.
C23_IssuesAreIndependent ==
    \A i \in 1..Len(zha_devices) :
       Diagnosed(i) =>
          LET ieee == Lower(zha_devices[i].ieee)
              low == \E e \in 1..Len(entreg) : IsLowBatteryEntityOf(e, i)
          IN  /\ IsOffline(i) <=> HasProblem(i, "UNAVAILABLE (offline?)")
              /\ IsOffline(i) <=> InList(report.offline_devices, ieee)
              /\ IsUnknownModel(i) <=> HasProblem(i, "Unknown manufacturer/model")
              /\ IsUnknownModel(i) <=> InList(report.unknown_model_devices, ieee)
              /\ low <=> HasProblem(i, "low-battery entity(ies)")
              /\ low <=> InList(report.low_battery, ieee)

C23_Witness ==
    /\ Diagnosed(2)
    /\ IsOffline(2) /\ IsUnknownModel(2)
    /\ \E e \in 1..Len(entreg) : IsLowBatteryEntityOf(e, 2)
    /\ report.devices[2].problems = << "UNAVAILABLE (offline?)", "Unknown manufacturer/model",
                                       "low-battery entity(ies)" >>
    /\ InList(report.offline_devices, "aa")
    /\ InList(report.unknown_model_devices, "aa")
    /\ InList(report.low_battery, "aa")

\* the entity at position e, with the snapshot at position s, is one diagnose
\* tests for its battery level
IsBatteryChecked(e, s) ==
    /\ HasSnapshot(e, s)
    /\ \/ entreg[e].entity_id \in {"sensor.lamp_battery", "sensor.Plug_BATTERY"}
       \/ states[s].attributes.device_class = "Battery"

\* the entries of the list that name the entity
EntriesOf(list, eid) == { j \in 1..Len(list) : list[j].eid = eid }

\* C24: with the threshold at 25, a battery entity of a device is flagged low,
\* once for the device and once in the report, exactly when its value reads
\* as a number under 25: 24 and 24.9 are flagged, 25 is not, and a value
\* that is no number (N/A) is passed over: the run goes on to its end and the
\* entity is counted in neither list.
C24_LowBatteryIsStrictlyUnderThreshold ==
    /\ BATTERY_THRESHOLD = 250
    /\ \A i \in 1..Len(zha_devices) : \A e \in 1..Len(entreg) : \A s \in 1..Len(states) :
          (/\ Diagnosed(i)
           /\ views[i].dev_id # None /\ entreg[e].device_id = views[i].dev_id
           /\ IsBatteryChecked(e, s)) =>
             LET eid == entreg[e].entity_id
                 value == states[s].state
                 flagged == Cardinality(EntriesOf(report.devices[i].dev_low_battery, eid))
                 counted == Cardinality(EntriesOf(report.low_battery, eid))
             IN  /\ value \in {"24", "24.9"} => flagged = 1 /\ counted = 1
                 /\ value \in {"25", "N/A", "unknown", None} => flagged = 0 /\ counted = 0
                 /\ value = "N/A" =>
                       \A j \in 1..Len(report.devices[i].dev_unavail_ents) :
                          report.devices[i].dev_unavail_ents[j] # eid
    /\ flow = "diagnose" => ENABLED NextDiag \/ jpc = "reported"

C24_Witness ==
    /\ jpc = "reported"
    /\ Len(views) = 2 /\ Len(states) = 2
    /\ views[2].dev_id = "d1"
    /\ IsBatteryChecked(1, 2)
    /\ states[2].state = "24"
    /\ report.devices[2].dev_low_battery = << [eid |-> entreg[1].entity_id, batt |-> 240] >>
    /\ Len(report.low_battery) = 1

\* a value that is no number, on a battery entity, after the whole run
C24_WitnessNotANumber ==
    /\ jpc = "reported"
    /\ Len(views) = 2 /\ Len(states) = 2
    /\ views[2].dev_id = "d1"
    /\ IsBatteryChecked(1, 2)
    /\ states[2].state = "N/A"
    /\ report.devices[2].dev_low_battery = << >>

\* the input of the end-to-end example, diagnosed to the end
ExampleReported ==
    /\ flow = "diagnose" /\ jpc = "reported"
    /\ zha_devices = << ExampleDevice >>
    /\ devreg = << >> /\ entreg = << >> /\ states = << >>

\* the parts of the example on which the report agrees
ExampleCommon ==
    /\ report.offline_devices = << >>
    /\ report.low_battery = << >>
    /\ report.entity_unavailable = << >>
    /\ Len(report.devices) = 1
    /\ report.devices[1].ieee = "aa"
    /\ report.devices[1].dev_name = ""
    /\ report.devices_without_entities = << [ieee |-> "aa", name |-> ""] >>

\* C25 as stated: the report on the one device AA (nwk 0, available, nothing
\* else known) with empty registry, entities and states has no offline, no
\* unknown-identity and no low-battery entry; the device has no registry name
\* and is listed as entity-less.
C25_ExampleHasNoUnknownEntry ==
    ExampleReported => ExampleCommon /\ report.unknown_model_devices = << >>

\* C25: the report on that input has no offline and no low-battery entry and
\* one unknown-identity entry, the device's own, as it names neither
\* manufacturer nor model; the device is diagnosed though its nwk is 0, has no
\* registry name and is listed as entity-less.
C25_ExampleHasOneUnknownEntry ==
    ExampleReported =>
       /\ ExampleCommon
       /\ report.unknown_model_devices = << [ieee |-> "aa", manuf |-> "", model |-> ""] >>
       /\ report.devices[1].problems = << "Unknown manufacturer/model",
                                          "No entities in entity_registry" >>

C25_Witness ==
    /\ ExampleReported
    /\ Len(report.unknown_model_devices) = 1
    /\ Len(report.devices_without_entities) = 1

-----------------------------------------------------------------------------
(* Claims on an address that two registry records carry *)

\* the positions of the registry records that carry the address of the device
\* at position i
MatchingRecords(i) == { r \in 1..Len(devreg) : Matching(zha_devices[i], devreg[r]) }

FirstOf(S) == CHOOSE r \in S : \A q \in S : r <= q

LastOf(S) == CHOOSE r \in S : \A q \in S : q <= r

\* the join came to its end with a view for every device
JoinedAll == jpc = "joined" /\ Len(views) = Len(zha_devices)

-----------------------------------------------------------------------------
(* Claims on the order of the resolution *)

\* the record the device at position i names by its device_reg_id, if any
DirectRecord(i) ==
    LET S == { r \in 1..Len(devreg) : devreg[r].id = zha_devices[i].device_reg_id }
    IN  IF S = {} THEN NoRecord ELSE devreg[LastOf(S)]

\* the record the address index holds for the device at position i, if any
IndexedRecord(i) ==
    IF MatchingRecords(i) = {} THEN NoRecord ELSE devreg[LastOf(MatchingRecords(i))]

\* the record the stated order gives the device at position i: the one it
\* names if it names one, else the one of the address index, else none
ResolvedAsStated(i) ==
    IF zha_devices[i].device_reg_id # None THEN DirectRecord(i) ELSE IndexedRecord(i)

\* C27 as stated: the join of diagnose and the merge of fetch_all resolve
\* every device through its device_reg_id when it carries one, through the
\* address index only when it carries none, and to no record when neither
\* gives one.
C27_DirectReferenceFirst ==
    \A i \in 1..Len(zha_devices) :
       /\ (flow = "diagnose" /\ jpc \in {"joined", "reported"}) =>
             views[i].devreg_dev = ResolvedAsStated(i)
       /\ Merged(i) => enriched[i].dev_entry = ResolvedAsStated(i)

\* the part of it that holds for diagnose: the address index alone decides
C27_DiagnoseUsesIndexOnly ==
    \A i \in 1..Len(zha_devices) :
       (flow = "diagnose" /\ jpc \in {"joined", "reported"}) =>
          views[i].devreg_dev = IndexedRecord(i)

\* the part of it that holds for the merge: the named record if the registry
\* holds it, else the one of the address index
C27_MergeFallsBackOnIndex ==
    \A i \in 1..Len(zha_devices) :
       Merged(i) =>
          enriched[i].dev_entry =
             IF DirectRecord(i) # NoRecord THEN DirectRecord(i) ELSE IndexedRecord(i)

\* diagnose holds a device for a ghost though it names its record
C27_DiagnoseMissesNamedRecord ==
    /\ flow = "diagnose" /\ jpc = "reported"
    /\ \E i \in 1..Len(zha_devices) :
          /\ zha_devices[i].ieee = "cc" /\ zha_devices[i].device_reg_id = "d2"
          /\ DirectRecord(i).name = "Plug"
          /\ views[i].devreg_dev = NoRecord
          /\ HasProblem(i, "No entities in entity_registry")

\* the merge resolves a device that names a record the registry lacks
C27_MergeResolvesDanglingReference ==
    /\ flow = "list" /\ jpc = "listed"
    /\ \E i \in 1..Len(zha_devices) :
          /\ zha_devices[i].device_reg_id = "d9"
          /\ DirectRecord(i) = NoRecord
          /\ enriched[i].dev_entry # NoRecord

-----------------------------------------------------------------------------
(* Claims on what plan_changes plans *)

\* the address of the row as plan_changes compares it
RowAddress(row) == Lower(Strip(row.ieee))

\* the address of the first topology device whose short address is zero
FirstCoordinator ==
    LET S == { j \in 1..Len(fetched.zha) : fetched.zha[j].nwk.str \in {"0", "0000"} }
    IN  IF S = {} THEN None ELSE Lower(fetched.zha[FirstOf(S)].ieee)

\* the user-assigned name of the record the row resolves to, "" if it has none
CurrentName(row) ==
    LET S == { r \in 1..Len(fetched.devreg) : fetched.devreg[r].id = Resolved(row) }
    IN  IF S = {} THEN "" ELSE Or(fetched.devreg[LastOf(S)].name_by_user, "")

\* none of the five skip conditions holds for the row
Qualifies(row) ==
    /\ RowAddress(row) # ""
    /\ RowAddress(row) # FirstCoordinator
    /\ Names(row)
    /\ Resolved(row) \notin {None, ""}
    /\ Strip(Or(row.custom_name, "")) # CurrentName(row)

\* the planned change of a row that qualifies
ChangeOf(row) ==
    [ieee |-> RowAddress(row), dev_id |-> Resolved(row),
     old_name |-> CurrentName(row), new_name |-> Strip(Or(row.custom_name, ""))]

\* C28: the plan holds one change for every row for which none of the skip
\* conditions holds (address not empty, not the coordinator's, name neither
\* empty nor "-", a record for the address, name other than the record's
\* user-assigned name), in the order of the rows, and none for any other
\* row; each change carries the record's id, the normalized address, the old
\* and the new name.
C28_PlannedIffNoSkipCondition ==
    Planned =>
       LET qualifying == SelectSeq(csv_rows, Qualifies)
       IN  changes = [j \in 1..Len(qualifying) |-> ChangeOf(qualifying[j])]

C28_Witness ==
    /\ Planned
    /\ Len(csv_rows) = 2
    /\ Qualifies(csv_rows[1]) /\ ~Qualifies(csv_rows[2])
    /\ csv_rows[2].custom_name = "-"
    /\ changes = << [ieee |-> "bb", dev_id |-> "d1", old_name |-> "K", new_name |-> "L"] >>

-----------------------------------------------------------------------------
(* Claims on which entities diagnose tests for their battery level *)

\* the entity at position e belongs to the record of the device at position
\* i and the states hold its snapshot at position s
EntityOf(e, s, i) ==
    /\ views[i].dev_id # None
    /\ entreg[e].device_id = views[i].dev_id
    /\ HasSnapshot(e, s)

\* the entity is counted low for the device at position i and in the report
CountedLow(e, i) ==
    /\ EntriesOf(report.devices[i].dev_low_battery, entreg[e].entity_id) # {}
    /\ EntriesOf(report.low_battery, entreg[e].entity_id) # {}

\* C29 as stated: an entity whose id, whose declared category in the entity
\* registry or whose category attribute in its state contains "battery" in
\* any letter case, and whose value reads as a number under the threshold, is
\* counted low for its device and in the report.
C29_BatteryByIdDeclaredOrAttribute ==
    \A i \in 1..Len(zha_devices) : \A e \in 1..Len(entreg) : \A s \in 1..Len(states) :
       (/\ Diagnosed(i) /\ EntityOf(e, s, i)
        /\ \/ entreg[e].entity_id \in {"sensor.lamp_battery", "sensor.Plug_BATTERY"}
           \/ entreg[e].device_class = "battery"
           \/ states[s].attributes.device_class = "Battery"
        /\ states[s].state \in {"24", "24.9"}) => CountedLow(e, i)

\* what diagnose does: the id and the attribute of the state decide, the
\* declared category does not
C29_DiagnoseTestsIdAndAttribute ==
    \A i \in 1..Len(zha_devices) : \A e \in 1..Len(entreg) : \A s \in 1..Len(states) :
       (Diagnosed(i) /\ EntityOf(e, s, i)) =>
          (CountedLow(e, i) <=> IsBatteryChecked(e, s) /\ states[s].state \in {"24", "24.9"})

\* an entity declared a battery, at 24, that diagnose does not count
C29_DeclaredBatteryNotCounted ==
    /\ flow = "diagnose" /\ jpc = "reported"
    /\ entreg # << >>
    /\ \E i \in 1..Len(zha_devices) : \E s \in 1..Len(states) :
          /\ EntityOf(1, s, i)
          /\ entreg[1].entity_id = "sensor.temp"
          /\ entreg[1].device_class = "battery"
          /\ states[s].state = "24"
          /\ report.low_battery = << >>

\* the merge takes the same entity for the battery of the device
C29_MergeTakesDeclaredBattery ==
    /\ flow = "list" /\ jpc = "listed"
    /\ entreg # << >>
    /\ \E i \in 1..Len(zha_devices) :
          /\ entreg[1].entity_id = "sensor.temp"
          /\ entreg[1].device_class = "battery"
          /\ enriched[i].battery_entity_id = "sensor.temp"
          /\ enriched[i].battery = "24"

-----------------------------------------------------------------------------
(* Claims on an entity without a state *)

\* the entity at position e belongs to the record of the device at position
\* i and the states hold no snapshot of it
StatelessEntityOf(e, i) ==
    /\ views[i].dev_id # None
    /\ entreg[e].device_id = views[i].dev_id
    /\ \A s \in 1..Len(states) : ~HasSnapshot(e, s)

\* the entity is counted unavailable/unknown for the device at position i
\* and in the report
CountedUnknown(e, i) ==
    /\ \E j \in 1..Len(report.devices[i].dev_unavail_ents) :
          report.devices[i].dev_unavail_ents[j] = entreg[e].entity_id
    /\ EntriesOf(report.entity_unavailable, entreg[e].entity_id) # {}

\* no list of the report names the entity
CountedNowhere(e, i) ==
    /\ \A j \in 1..Len(report.devices[i].dev_unavail_ents) :
          report.devices[i].dev_unavail_ents[j] # entreg[e].entity_id
    /\ EntriesOf(report.entity_unavailable, entreg[e].entity_id) = {}
    /\ EntriesOf(report.devices[i].dev_low_battery, entreg[e].entity_id) = {}
    /\ EntriesOf(report.low_battery, entreg[e].entity_id) = {}

\* the join and diagnose come to their end
RunsToEnd ==
    /\ jpc = "joined" => Len(views) = Len(zha_devices)
    /\ jpc = "reported" => Len(report.devices) = Len(zha_devices)

\* C30 as stated: an entity without a snapshot stops neither the join nor
\* diagnose, and diagnose counts it as it counts an entity whose state is
\* "unknown": unavailable/unknown for its device and in the report.
C30_StatelessEntityCountsAsUnknown ==
    /\ RunsToEnd
    /\ \A i \in 1..Len(zha_devices) : \A e \in 1..Len(entreg) :
          Diagnosed(i) =>
             /\ StatelessEntityOf(e, i) => CountedUnknown(e, i)
             /\ \A s \in 1..Len(states) :
                   (EntityOf(e, s, i) /\ states[s].state = "unknown") => CountedUnknown(e, i)

\* C30: an entity without a snapshot stops neither the join nor diagnose,
\* and diagnose passes it over: it is counted neither unavailable/unknown nor
\* low on battery, though it keeps its device from being entity-less; an
\* entity whose state is "unknown" is counted unavailable/unknown.
C30_StatelessEntityIsPassedOver ==
    /\ RunsToEnd
    /\ \A i \in 1..Len(zha_devices) : \A e \in 1..Len(entreg) :
          Diagnosed(i) =>
             /\ StatelessEntityOf(e, i) =>
                   /\ CountedNowhere(e, i)
                   /\ ~HasProblem(i, "No entities in entity_registry")
             /\ \A s \in 1..Len(states) :
                   (EntityOf(e, s, i) /\ states[s].state = "unknown") => CountedUnknown(e, i)

C30_Witness ==
    /\ flow = "diagnose" /\ jpc = "reported"
    /\ \E i \in 1..Len(zha_devices) :
          /\ entreg # << >>
          /\ StatelessEntityOf(1, i)
          /\ entreg[1].entity_id = "sensor.lamp_battery"
          /\ views[i].ent_list = << entreg[1] >>
          /\ CountedNowhere(1, i)

====
